---- MODULE Spec2Model ----
(***************************************************************************)
(* Brainrotify backend: the generation pipeline of                         *)
(* GenerationService.generate_content and the services it drives           *)
(* (VeniceService, VideoService, IPFSService).                             *)
(*                                                                         *)
(* Every request handled by main.generate builds its own GenerationService *)
(* and runs generate_content as one asyncio task.  A run is suspended at   *)
(* each collaborator call, so runs interleave call by call.  The two temp  *)
(* directories (tmp/brainrotify and tmp/brainrotify_video) are shared by   *)
(* every service instance of the process.                                  *)
(*                                                                         *)
(* Durations are in tenths of a second.                                    *)
(***************************************************************************)
EXTENDS Integers, Sequences, FiniteSets, TLC

None == "None"

\* The concurrent runs of generate_content that are modelled.
Runs == {"r1", "r2"}

\* Scripts the script collaborator may return (message.get("content", "")).
Scripts == {"", "Hello world."}

\* Audio durations (tenths of a second) the speech collaborator may produce.
Durations == {99, 100, 254}

\* Largest explicit image_count a caller passes to generate_content.
MaxImageCount == 1

\* Most unlink calls that fail during one cleanup call.
MaxUnlinkFailures == 1

\* Most cleanup calls made on one service when cleanup is called on its own.
MaxCleanupCalls == 2

\* api_models.py:9 and generation_service.py:20: the default target duration.
TargetDuration == 60

\* Target durations a caller may send: api_models.py:9 declares duration an
\* Optional[int] with default 60 and no range, so 0 is accepted like 60.
TargetDurations == {60, 0}

\* Requests: main.generate passes content, style and duration only; the other
\* parameters of generate_content keep their defaults unless a caller sets them.
Requests ==
    { [content |-> "Turtles", style |-> "Soap Cutting", duration |-> TargetDuration,
       image_count |-> ic, ticker |-> t,
       description |-> IF t = None THEN None ELSE "Slow and steady"]
        : ic \in {<<>>} \cup { <<n>> : n \in 0..MaxImageCount },
          t \in {None, "BRT"} }
    \cup
    { [content |-> "Turtles", style |-> "Soap Cutting", duration |-> d,
       image_count |-> <<>>, ticker |-> None, description |-> None]
        : d \in TargetDurations }

VARIABLES
    request,      \* request[r]: the arguments of run r's generate_content call
    use_mock,     \* IPFSService.use_mock (PINATA_JWT unset)
    venice_dir,   \* files in VeniceService.temp_dir  (tmp/brainrotify)
    video_dir,    \* files in VideoService.temp_dir   (tmp/brainrotify_video)
    pc,           \* pc[r]: the call run r is suspended at
    local,        \* local[r]: the local variables of generate_content and its callees
    upload,       \* upload[r]: tenacity's retry state of the upload in progress
    outcome,      \* outcome[r]: what generate_content returned or raised
    hist          \* hist[r]: observation of run r (calls made, cleanups, stages)

vars == <<request, use_mock, venice_dir, video_dir, pc, local, upload, outcome, hist>>

Max(a, b) == IF a >= b THEN a ELSE b
Min(a, b) == IF a <= b THEN a ELSE b

Range(s) == { s[i] : i \in 1..Len(s) }

(***************************************************************************)
(* Values                                                                  *)
(***************************************************************************)

\* A temp file: uuid4 names are unique, so a file is identified by the run
\* that created it and that run's file counter.
File(r, ext, n) == [owner |-> r, ext |-> ext, n |-> n]
NoFile == [owner |-> None, ext |-> None, n |-> 0]

\* A URI returned by the content store, identified by what was uploaded.
Uri(scheme, content) == [scheme |-> scheme, content |-> content]
NoUri == [scheme |-> None, content |-> NoFile]

Stages == {"script", "speech", "images", "captions", "render",
           "thumbnail", "video", "metadata"}

\* The order in which generate_content reaches its stages.
StageOrder == <<"script", "speech", "images", "captions", "render",
                "thumbnail", "video", "metadata">>

\* The run states of the pipeline, in forward order; Errored is apart.
StateOrder == <<"Init", "ScriptReady", "AudioReady", "ImagesReady",
                "CaptionsReady", "VideoReady", "Published", "Done">>

\* video_service.py:204: the word and punctuation tokens of a script,
\* re.findall(r"[\w']+|[,.!?:;\-]", script.lower()).
Tokens(script) ==
    IF script = "Hello world." THEN <<"hello", "world", ".">> ELSE <<>>

\* Variant of ImageCount: one image per started 10 seconds of audio.
ImageCountPerStarted(image_count, audio_duration) ==
    IF image_count = <<>>
    THEN Max(1, (audio_duration + 99) \div 100)
    ELSE image_count[1]

\* generation_service.py:46-47: one image per 10 seconds of audio, at least one,
\* unless the caller gave a count.  image_count is <<>> for None, <<n>> for n.
ImageCount(image_count, audio_duration) ==
    IF image_count = <<>>
    THEN Max(1, (audio_duration \div 100) + 1)
    ELSE image_count[1]

(***************************************************************************)
(* Observation of a run                                                    *)
(***************************************************************************)

\* What one cleanup call did: the files it removed, the files whose unlink
\* raised (each logged), and whether the call itself raised.
NoCleanup == [before |-> {}, removed |-> {}, failed |-> {}, raised |-> FALSE]

InitHist ==
    [trace      |-> <<>>,
     state      |-> "Init",
     cleanups   |-> 0,
     done       |-> {},
     narrated   |-> <<>>,
     stored     |-> <<>>,
     cleanup    |-> NoCleanup,
     previous   |-> NoCleanup,
     video_cleanups |-> 0,
     video_cleanup  |-> NoCleanup,
     calls      |-> [s \in Stages |-> 0],
     failed     |-> [s \in Stages |-> 0],
     after_fail |-> [s \in Stages |-> 0]]

\* One call of a collaborator of stage s, which succeeded (ok) or raised.
Call(h, s, ok) ==
    [h EXCEPT !.trace      = IF s \in Range(@) THEN @ ELSE Append(@, s),
              !.calls[s]   = @ + 1,
              !.after_fail[s] = IF h.failed[s] > 0 THEN @ + 1 ELSE @,
              !.failed[s]  = IF ok THEN @ ELSE @ + 1]

\* The speech collaborator was given text to narrate.
Narrated(h, text) == [h EXCEPT !.narrated = Append(@, text)]

\* The content store answered an upload of stage s with uri.
Stored(h, s, uri) == [h EXCEPT !.stored = Append(@, [stage |-> s, uri |-> uri])]

\* Stage s completed and the run reached state st.
Completed(h, s, st) == [h EXCEPT !.done = @ \cup {s}, !.state = st]

(***************************************************************************)
(* Initial state: the runs are accepted, nothing has been called yet.      *)
(***************************************************************************)

\* The caption computation of a run: the script as characters, the duration of
\* the audio, what the transcription gives (it raises, or returns timed words),
\* the locals of _align_transcription_with_script, the transcribed word each
\* script word was matched to (-1 for none) and the caption data returned.
NoAlign ==
    [script         |-> <<>>,
     audio_duration |-> 0,
     transcription  |-> [raises |-> FALSE, words |-> <<>>],
     whisper_words  |-> <<>>,
     script_words   |-> <<>>,
     script_idx     |-> 0,
     trans_idx      |-> 0,
     aligned_words  |-> <<>>,
     matched        |-> <<>>,
     caption_data   |-> <<>>,
     word1          |-> <<>>,
     word2          |-> <<>>,
     similarity     |-> [n |-> 0, d |-> 1]]

InitLocal ==
    [script         |-> "",
     audio_file     |-> NoFile,
     audio_duration |-> 0,
     image_count    |-> 0,
     image_files    |-> <<>>,
     i              |-> 0,
     video_file     |-> NoFile,
     thumbnail_uri  |-> NoUri,
     video_uri      |-> NoUri,
     metadata       |-> NoUri,
     metadata_uri   |-> NoUri,
     caption_data   |-> [strategy |-> "", duration |-> ""],
     transcript     |-> "",
     nfiles         |-> 0,
     align          |-> NoAlign]

\* tenacity's retry state: the number of the attempt to make next, the waits
\* slept so far, and the kind of the last failure ("" before any).
InitUpload == [attempt_number |-> 1, waits |-> <<>>, last_failure |-> ""]

InitOutcome == [returned |-> <<>>, raised |-> <<>>]

InitWith(reqs) ==
    /\ request \in [Runs -> reqs]
    /\ use_mock \in BOOLEAN
    /\ venice_dir = {}
    /\ video_dir = {}
    /\ pc = [r \in Runs |-> "script"]
    /\ local = [r \in Runs |-> InitLocal]
    /\ upload = [r \in Runs |-> InitUpload]
    /\ outcome = [r \in Runs |-> InitOutcome]
    /\ hist = [r \in Runs |-> InitHist]

(***************************************************************************)
(* VeniceService.cleanup and the except block of generate_content          *)
(***************************************************************************)

\* The unlink calls of one cleanup call that raise: any few files of the
\* directory (a file held open, a permission, a file already gone).
UnlinkFailures(dir) == { F \in SUBSET dir : Cardinality(F) <= MaxUnlinkFailures }

\* Variant of VeniceCleanup: a call that finds nothing to remove raises.
VeniceCleanupStrict(dir, failing) ==
    [before  |-> dir,
     removed |-> { f \in dir : f \notin failing },
     failed  |-> { f \in dir : f \in failing },
     raised  |-> dir = {}]

\* Variant of VeniceCleanup: the first unlink that raises ends the call.
VeniceCleanupAborts(dir, failing) ==
    IF dir \cap failing = {}
    THEN [before |-> dir, removed |-> dir, failed |-> {}, raised |-> FALSE]
    ELSE [before |-> dir, removed |-> {}, failed |-> dir \cap failing, raised |-> TRUE]

\* venice_service.py:290-297: unlink every file the glob of the shared temp
\* directory yields; an unlink that raises is logged and the loop goes on.
VeniceCleanup(dir, failing) ==
    [before  |-> dir,
     removed |-> { f \in dir : f \notin failing },
     failed  |-> { f \in dir : f \in failing },
     raised  |-> FALSE]

\* video_service.py:541-549: the same loop over VideoService.temp_dir.
VideoCleanup(dir, failing) ==
    [before  |-> dir,
     removed |-> { f \in dir : f \notin failing },
     failed  |-> { f \in dir : f \in failing },
     raised  |-> FALSE]

\* The observation after a cleanup call that did c.
Cleaned(h, c) ==
    [h EXCEPT !.cleanups = @ + 1, !.previous = h.cleanup, !.cleanup = c]

\* Variant of Except: the handler returns what it has instead of re-raising.
ExceptReturns(r, stage, l, h) ==
    /\ venice_dir' = {}
    /\ local' = [local EXCEPT ![r] = l]
    /\ hist' = [hist EXCEPT ![r] =
                  [h EXCEPT !.cleanups = @ + 1,
                            !.trace = @ \o <<"cleanup", "result">>,
                            !.state = "Errored"]]
    /\ outcome' = [outcome EXCEPT ![r].returned =
                      Append(@, [metadata_uri |-> l.metadata_uri,
                                 video_uri |-> l.video_uri,
                                 script |-> l.script,
                                 thumbnail_uri |-> l.thumbnail_uri])]
    /\ pc' = [pc EXCEPT ![r] = "returned"]
    /\ UNCHANGED <<request, use_mock>>

\* generation_service.py:108-113: a stage raised while the run had locals l
\* and observation h; clean up, log, re-raise.
Except(r, stage, l, h) ==
    \E failing \in UnlinkFailures(venice_dir) :
        LET c == VeniceCleanup(venice_dir, failing) IN
        /\ venice_dir' = venice_dir \ c.removed
        /\ local' = [local EXCEPT ![r] = l]
        /\ hist' = [hist EXCEPT ![r] =
                      [Cleaned(h, c) EXCEPT !.trace = @ \o <<"cleanup", "error">>,
                                            !.state = "Errored"]]
        /\ outcome' = [outcome EXCEPT ![r].raised =
                          Append(@, IF c.raised THEN "cleanup" ELSE stage)]
        /\ pc' = [pc EXCEPT ![r] = "raised"]
        /\ UNCHANGED <<request, use_mock>>

\* The stage's call returned: carry on to the next call.
Continue(r, next, l, h) ==
    /\ local' = [local EXCEPT ![r] = l]
    /\ hist' = [hist EXCEPT ![r] = h]
    /\ pc' = [pc EXCEPT ![r] = next]
    /\ UNCHANGED <<request, use_mock, outcome>>

(***************************************************************************)
(* Stage 1 and 2: script and speech                                        *)
(***************************************************************************)

\* generation_service.py:38, venice_service.py:23-74.
GenerateScript(r) ==
    /\ pc[r] = "script"
    /\ UNCHANGED <<video_dir, upload>>
    /\ \/ \E text \in Scripts :
            /\ venice_dir' = venice_dir
            /\ Continue(r, "tts",
                        [local[r] EXCEPT !.script = text],
                        Completed(Call(hist[r], "script", TRUE), "script", "ScriptReady"))
       \/ Except(r, "script", local[r], Call(hist[r], "script", FALSE))

\* generation_service.py:42-48, venice_service.py:76-133: the audio is written
\* to temp_dir under a fresh uuid4 name and its duration measured; then the
\* image count is derived.
GenerateTts(r) ==
    /\ pc[r] = "tts"
    /\ UNCHANGED <<video_dir, upload>>
    /\ \/ \E d \in Durations :
            LET f == File(r, "mp3", local[r].nfiles + 1) IN
            /\ venice_dir' = venice_dir \cup {f}
            /\ Continue(r, "img_prompts",
                        [local[r] EXCEPT !.audio_file = f,
                                         !.audio_duration = d,
                                         !.nfiles = @ + 1,
                                         !.image_count =
                                             ImageCount(request[r].image_count, d)],
                        Completed(Call(Narrated(hist[r], local[r].script), "speech", TRUE),
                                  "speech", "AudioReady"))
       \/ Except(r, "speech", local[r],
                 Call(Narrated(hist[r], local[r].script), "speech", FALSE))

(***************************************************************************)
(* Stage 3: images (VeniceService.generate_multiple_images)                *)
(***************************************************************************)

\* generate_multiple_images returned the list l.image_files to generate_content.
ImagesReturned(r, l, h) ==
    Continue(r, "load", l, Completed(h, "images", "ImagesReady"))

\* venice_service.py:202-241: the chat call that asks for count prompts.  With
\* choices the prompts are parsed and padded to count; without choices the
\* name prompts is unbound at line 243; an HTTP error raises at line 226.  Both
\* of the latter land in the except block of line 283.
ImagePrompts(r) ==
    /\ pc[r] = "img_prompts"
    /\ UNCHANGED <<venice_dir, video_dir, upload>>
    /\ LET l == [local[r] EXCEPT !.image_files = <<>>, !.i = 0] IN
       \/ LET h == Call(hist[r], "images", TRUE) IN
          IF l.image_count >= 1
          THEN Continue(r, "img_batch", l, h)
          ELSE ImagesReturned(r, l, h)
       \/ Continue(r, "img_fallback", l, Call(hist[r], "images", TRUE))
       \/ Continue(r, "img_fallback", l, Call(hist[r], "images", FALSE))

\* Where the batch loop of lines 243-272 goes after the iteration for prompt
\* l.i - 1: the next prompt, the top-up loop of lines 275-280, or the return.
AfterBatch(r, l, h) ==
    IF l.i < l.image_count
    THEN Continue(r, "img_batch", l, h)
    ELSE IF Len(l.image_files) < l.image_count
         THEN Continue(r, "img_remaining", l, h)
         ELSE ImagesReturned(r, l, h)

\* venice_service.py:243-272: the image call for prompt i.  It yields an image
\* (saved under a fresh name), or a response without image data (continue),
\* or raises.
ImageBatch(r) ==
    /\ pc[r] = "img_batch"
    /\ UNCHANGED <<video_dir, upload>>
    /\ \/ LET f == File(r, "png", local[r].nfiles + 1) IN
          /\ venice_dir' = venice_dir \cup {f}
          /\ AfterBatch(r, [local[r] EXCEPT !.image_files = Append(@, f),
                                            !.nfiles = @ + 1,
                                            !.i = @ + 1],
                        Call(hist[r], "images", TRUE))
       \/ /\ venice_dir' = venice_dir
          /\ AfterBatch(r, [local[r] EXCEPT !.i = @ + 1],
                        Call(hist[r], "images", TRUE))
       \/ /\ venice_dir' = venice_dir
          /\ Continue(r, "img_fallback", local[r], Call(hist[r], "images", FALSE))

\* venice_service.py:275-282: generate_image once per missing image.
ImageRemaining(r) ==
    /\ pc[r] = "img_remaining"
    /\ UNCHANGED <<video_dir, upload>>
    /\ \/ LET f == File(r, "png", local[r].nfiles + 1)
              l == [local[r] EXCEPT !.image_files = Append(@, f),
                                    !.nfiles = @ + 1]
              h == Call(hist[r], "images", TRUE) IN
          /\ venice_dir' = venice_dir \cup {f}
          /\ IF Len(l.image_files) < l.image_count
             THEN Continue(r, "img_remaining", l, h)
             ELSE ImagesReturned(r, l, h)
       \/ /\ venice_dir' = venice_dir
          /\ Continue(r, "img_fallback", local[r], Call(hist[r], "images", FALSE))

\* Variant of ImageFallback: a fallback call that raises is issued once more.
ImageFallbackRepeated(r) ==
    /\ pc[r] = "img_fallback"
    /\ UNCHANGED <<video_dir, upload>>
    /\ \/ LET f == File(r, "png", local[r].nfiles + 1) IN
          /\ venice_dir' = venice_dir \cup {f}
          /\ ImagesReturned(r, [local[r] EXCEPT !.image_files = <<f>>,
                                                !.nfiles = @ + 1],
                            Call(hist[r], "images", TRUE))
       \/ IF hist[r].after_fail["images"] = 0
          THEN /\ venice_dir' = venice_dir
               /\ Continue(r, "img_fallback", local[r], Call(hist[r], "images", FALSE))
          ELSE Except(r, "images", local[r], Call(hist[r], "images", FALSE))

\* Variant of ImageFallback: the image of the fallback call is added to the
\* images made before the error.
ImageFallbackAppends(r) ==
    /\ pc[r] = "img_fallback"
    /\ UNCHANGED <<video_dir, upload>>
    /\ \/ LET f == File(r, "png", local[r].nfiles + 1) IN
          /\ venice_dir' = venice_dir \cup {f}
          /\ ImagesReturned(r, [local[r] EXCEPT !.image_files = Append(@, f),
                                                !.nfiles = @ + 1],
                            Call(hist[r], "images", TRUE))
       \/ Except(r, "images", local[r], Call(hist[r], "images", FALSE))

\* venice_service.py:283-288: after any error, one generate_image call whose
\* image is returned alone; its failure propagates to generate_content.
ImageFallback(r) ==
    /\ pc[r] = "img_fallback"
    /\ UNCHANGED <<video_dir, upload>>
    /\ \/ LET f == File(r, "png", local[r].nfiles + 1) IN
          /\ venice_dir' = venice_dir \cup {f}
          /\ ImagesReturned(r, [local[r] EXCEPT !.image_files = <<f>>,
                                                !.nfiles = @ + 1],
                            Call(hist[r], "images", TRUE))
       \/ Except(r, "images", local[r], Call(hist[r], "images", FALSE))

(***************************************************************************)
(* Stage 4: VideoService.create_video                                      *)
(***************************************************************************)

\* Variant of Loadable: a video is made of no image as well.
LoadableWithoutImages(r) ==
    /\ local[r].audio_file \in venice_dir
    /\ Range(local[r].image_files) \subseteq venice_dir

\* video_service.py:47-85: the audio and every image are opened from their
\* paths; an empty image list raises ValueError.
Loadable(r) ==
    /\ local[r].audio_file \in venice_dir
    /\ local[r].image_files # <<>>
    /\ Range(local[r].image_files) \subseteq venice_dir

\* video_service.py:47-85 and 108-110: load the clips, or raise.
LoadClips(r) ==
    /\ pc[r] = "load"
    /\ UNCHANGED <<video_dir, upload>>
    /\ \/ /\ Loadable(r)
          /\ venice_dir' = venice_dir
          /\ Continue(r, "captions", local[r], hist[r])
       \/ Except(r, "render", local[r], hist[r])

\* video_service.py:140-189: what _whisper_transcribe_python does: it returns
\* a non-empty list of timed words, returns an empty list, or raises (the
\* model cannot be loaded, the audio cannot be read, the transcription fails).
Transcripts(audio_readable) ==
    IF audio_readable THEN {"words", "empty", "raises"} ELSE {"raises"}

\* Variant of WhisperTimestamps: the transcript is not used.
WhisperTimestampsEstimateOnly(transcript, script, audio_readable) ==
    IF audio_readable
    THEN [strategy |-> "A", duration |-> "audio", raised |-> FALSE]
    ELSE [strategy |-> "", duration |-> "", raised |-> TRUE]

\* Variant of WhisperTimestamps: an exception of the transcription propagates.
WhisperTimestampsNoFallback(transcript, script, audio_readable) ==
    IF transcript = "words"
    THEN [strategy |-> "B", duration |-> "words", raised |-> FALSE]
    ELSE IF transcript = "empty" /\ audio_readable
         THEN [strategy |-> "A", duration |-> "audio", raised |-> FALSE]
         ELSE [strategy |-> "", duration |-> "", raised |-> TRUE]

\* video_service.py:112-138 and 191-281: _get_whisper_timestamps.  A non-empty
\* transcript is aligned with the script (Strategy B); the alignment of a
\* script without tokens yields no aligned word and falls back to the estimate
\* (Strategy A) over the end of the last transcribed word (lines 276-281).  An
\* empty transcript or an exception falls back to the estimate over the
\* duration read from the audio file (lines 134, 138), which raises when the
\* file cannot be opened.
WhisperTimestamps(transcript, script, audio_readable) ==
    IF transcript = "words"
    THEN IF Tokens(script) # <<>>
         THEN [strategy |-> "B", duration |-> "words", raised |-> FALSE]
         ELSE [strategy |-> "A", duration |-> "transcript", raised |-> FALSE]
    ELSE IF audio_readable
         THEN [strategy |-> "A", duration |-> "audio", raised |-> FALSE]
         ELSE [strategy |-> "", duration |-> "", raised |-> TRUE]

\* video_service.py:89: the caption timings of create_video.
Captions(r) ==
    /\ pc[r] = "captions"
    /\ UNCHANGED <<video_dir, upload>>
    /\ LET audio_readable == local[r].audio_file \in venice_dir IN
       \E transcript \in Transcripts(audio_readable) :
          LET c == WhisperTimestamps(transcript, local[r].script, audio_readable)
              l == [local[r] EXCEPT !.transcript = transcript,
                                    !.caption_data = [strategy |-> c.strategy,
                                                      duration |-> c.duration]] IN
          IF c.raised
          THEN Except(r, "captions", l, Call(hist[r], "captions", FALSE))
          ELSE /\ venice_dir' = venice_dir
               /\ Continue(r, "write", l,
                           Completed(Call(hist[r], "captions", TRUE),
                                     "captions", "CaptionsReady"))

\* Variant of AfterVideo: the thumbnail upload is left out.
AfterVideoNoThumbnail(l) == "video"

\* generation_service.py:58-61: the thumbnail is uploaded when there is an image.
AfterVideo(l) == IF Len(l.image_files) > 0 THEN "thumb" ELSE "video"

\* video_service.py:93-107: compose the captions and write the mp4 under a
\* fresh name in VideoService.temp_dir.
WriteVideo(r) ==
    /\ pc[r] = "write"
    /\ UNCHANGED upload
    /\ \/ LET f == File(r, "mp4", local[r].nfiles + 1)
              l == [local[r] EXCEPT !.video_file = f, !.nfiles = @ + 1] IN
          /\ video_dir' = video_dir \cup {f}
          /\ venice_dir' = venice_dir
          /\ Continue(r, AfterVideo(l), l,
                      Completed(Call(hist[r], "render", TRUE),
                                "render", "VideoReady"))
       \/ /\ video_dir' = video_dir
          /\ Except(r, "render", local[r], Call(hist[r], "render", FALSE))

(***************************************************************************)
(* Stage 5: IPFSService uploads under tenacity's retry decorator           *)
(***************************************************************************)

\* ipfs_service.py:26 and 100: stop_after_attempt(3).
MaxAttempts == 3

\* Variant of StopAfterAttempt: one attempt fewer.
StopOneEarlier(attempt_number) == attempt_number >= MaxAttempts - 1

StopAfterAttempt(attempt_number) == attempt_number >= MaxAttempts

\* ipfs_service.py:26 and 100: wait_exponential(multiplier=1, min=2, max=10);
\* tenacity waits multiplier * 2^(attempt_number - 1), clamped to [min, max].
WaitMultiplier == 1
WaitMin == 2
WaitMax == 10

\* Variant of WaitExponential: the exponent is the attempt number itself.
WaitExponentialFromBase(attempt_number) ==
    Max(Max(0, WaitMin), Min(WaitMultiplier * 2 ^ attempt_number, WaitMax))

WaitExponential(attempt_number) ==
    Max(Max(0, WaitMin), Min(WaitMultiplier * 2 ^ (attempt_number - 1), WaitMax))

\* Variant of CreateMetadata: the two URIs change places.
CreateMetadataSwapped(content, style, video_ipfs_uri, thumbnail_ipfs_uri, ticker, description) ==
    [name          |-> ticker,
     description   |-> description,
     symbol        |-> ticker,
     image         |-> video_ipfs_uri,
     animation_url |-> thumbnail_ipfs_uri,
     content       |-> [uri |-> video_ipfs_uri, mime |-> "video/mp4"]]

\* ipfs_service.py:159-186.
CreateMetadata(content, style, video_ipfs_uri, thumbnail_ipfs_uri, ticker, description) ==
    [name          |-> ticker,
     description   |-> description,
     symbol        |-> ticker,
     image         |-> thumbnail_ipfs_uri,
     animation_url |-> video_ipfs_uri,
     content       |-> [uri |-> video_ipfs_uri, mime |-> "video/mp4"]]

\* The kinds of failure of one attempt: the store is unreachable or answers
\* with a status other than 200 (transient), answers 200 without a cid
\* (malformed), or the file to upload does not exist (not_found).
FailureKinds == {"transient", "malformed", "not_found"}

\* The outcomes of one attempt of upload_file(file) (ipfs_service.py:38-98):
\* "ok", or a failure kind.
UploadFileOutcomes(file, dir) ==
    IF use_mock THEN {"ok"}
    ELSE IF file \notin dir THEN {"not_found"}
    ELSE {"ok", "transient", "malformed"}

\* The outcomes of one attempt of upload_json (ipfs_service.py:110-157).
UploadJsonOutcomes ==
    IF use_mock THEN {"ok"} ELSE {"ok", "transient", "malformed"}

\* What a successful attempt returns: the mock URI built from the name, or the
\* gateway URL of the cid the store answered (content-addressed).
UploadedUri(content) == Uri(IF use_mock THEN "ipfs" ELSE "https", content)

\* tenacity: an attempt raised.  Stop after the last attempt (RetryError
\* reaches generate_content), else sleep and try again.
AttemptFailed(r, stage, kind) ==
    LET u == upload[r]
        h == Call(hist[r], stage, FALSE) IN
    IF StopAfterAttempt(u.attempt_number)
    THEN /\ upload' = [upload EXCEPT ![r].last_failure = kind]
         /\ Except(r, stage, local[r], h)
    ELSE /\ upload' = [upload EXCEPT ![r] =
                         [attempt_number |-> u.attempt_number + 1,
                          waits |-> Append(u.waits, WaitExponential(u.attempt_number)),
                          last_failure |-> kind]]
         /\ venice_dir' = venice_dir
         /\ Continue(r, pc[r], local[r], h)

\* generation_service.py:70-75: one attempt of the thumbnail upload.
UploadThumbnail(r) ==
    /\ pc[r] = "thumb"
    /\ UNCHANGED video_dir
    /\ LET file == local[r].image_files[1] IN
       \E o \in UploadFileOutcomes(file, venice_dir) :
          IF o = "ok"
          THEN /\ upload' = [upload EXCEPT ![r] = InitUpload]
               /\ venice_dir' = venice_dir
               /\ Continue(r, "video",
                           [local[r] EXCEPT !.thumbnail_uri = UploadedUri(file)],
                           Completed(Call(Stored(hist[r], "thumbnail", UploadedUri(file)),
                                          "thumbnail", TRUE),
                                     "thumbnail", hist[r].state))
          ELSE AttemptFailed(r, "thumbnail", o)

\* generation_service.py:79-90: one attempt of the video upload; on success the
\* metadata document is built.
UploadVideo(r) ==
    /\ pc[r] = "video"
    /\ UNCHANGED video_dir
    /\ LET file == local[r].video_file IN
       \E o \in UploadFileOutcomes(file, video_dir) :
          IF o = "ok"
          THEN /\ upload' = [upload EXCEPT ![r] = InitUpload]
               /\ venice_dir' = venice_dir
               /\ Continue(r, "meta",
                           [local[r] EXCEPT
                               !.video_uri = UploadedUri(file),
                               !.metadata = CreateMetadata(
                                   request[r].content, request[r].style,
                                   UploadedUri(file), local[r].thumbnail_uri,
                                   request[r].ticker, request[r].description)],
                           Completed(Call(Stored(hist[r], "video", UploadedUri(file)),
                                          "video", TRUE),
                                     "video", hist[r].state))
          ELSE AttemptFailed(r, "video", o)

\* generation_service.py:94: one attempt of the metadata upload.
UploadMetadata(r) ==
    /\ pc[r] = "meta"
    /\ UNCHANGED video_dir
    /\ \E o \in UploadJsonOutcomes :
          IF o = "ok"
          THEN /\ upload' = [upload EXCEPT ![r] = InitUpload]
               /\ venice_dir' = venice_dir
               /\ Continue(r, "cleanup",
                           [local[r] EXCEPT
                               !.metadata_uri = UploadedUri(local[r].metadata)],
                           Completed(Call(Stored(hist[r], "metadata",
                                                 UploadedUri(local[r].metadata)),
                                          "metadata", TRUE),
                                     "metadata", "Published"))
          ELSE AttemptFailed(r, "metadata", o)

(***************************************************************************)
(* Stage 6: cleanup and result                                             *)
(***************************************************************************)

\* Variant of Result: the thumbnail URI is returned in the place of the video URI.
ResultMixedUp(l) ==
    [metadata_uri  |-> l.metadata_uri,
     video_uri     |-> l.thumbnail_uri,
     script        |-> l.script,
     thumbnail_uri |-> l.thumbnail_uri]

\* generation_service.py:101-106.
Result(l) ==
    [metadata_uri  |-> l.metadata_uri,
     video_uri     |-> l.video_uri,
     script        |-> l.script,
     thumbnail_uri |-> l.thumbnail_uri]

\* Variant of Finish: the result is returned without the cleanup call.
FinishNoCleanup(r) ==
    /\ pc[r] = "cleanup"
    /\ venice_dir' = venice_dir
    /\ hist' = [hist EXCEPT ![r] =
                  [@ EXCEPT !.trace = @ \o <<"result">>, !.state = "Done"]]
    /\ outcome' = [outcome EXCEPT ![r].returned =
                      Append(@, [metadata_uri |-> local[r].metadata_uri,
                                 video_uri |-> local[r].video_uri,
                                 script |-> local[r].script,
                                 thumbnail_uri |-> local[r].thumbnail_uri])]
    /\ pc' = [pc EXCEPT ![r] = "returned"]
    /\ UNCHANGED <<request, use_mock, video_dir, local, upload>>

\* generation_service.py:96-106: clean up the temp files, return the result.
\* (An exception out of the cleanup call would land in the except block.)
Finish(r) ==
    /\ pc[r] = "cleanup"
    /\ UNCHANGED <<video_dir, upload>>
    /\ \E failing \in UnlinkFailures(venice_dir) :
          LET c == VeniceCleanup(venice_dir, failing) IN
          IF c.raised
          THEN Except(r, "cleanup", local[r], Cleaned(hist[r], c))
          ELSE /\ venice_dir' = venice_dir \ c.removed
               /\ hist' = [hist EXCEPT ![r] =
                             [Cleaned(@, c) EXCEPT
                                 !.trace = @ \o <<"cleanup", "result">>,
                                 !.state = "Done"]]
               /\ outcome' = [outcome EXCEPT ![r].returned =
                                 Append(@, Result(local[r]))]
               /\ pc' = [pc EXCEPT ![r] = "returned"]
               /\ UNCHANGED <<request, use_mock, local>>

(***************************************************************************)
(* Cancellation of the task that runs generate_content                     *)
(***************************************************************************)

\* The calls in which a run is suspended at an await that yields to the event
\* loop: the HTTP calls of the script, speech, image and store collaborators
\* (and tenacity's sleep between attempts) and the executor that transcribes.
Suspended == {"script", "tts", "img_prompts", "img_batch", "img_remaining",
              "img_fallback", "captions", "thumb", "video", "meta"}

\* generation_service.py:35-113: the task is cancelled while suspended.  The
\* await raises asyncio.CancelledError, a BaseException: no "except Exception"
\* clause of the services or of generate_content (line 108) handles it and
\* there is no finally clause, so it reaches the caller as it is.
Cancel(r) ==
    /\ pc[r] \in Suspended
    /\ pc' = [pc EXCEPT ![r] = "cancelled"]
    /\ UNCHANGED <<request, use_mock, venice_dir, video_dir, local, upload,
                   outcome, hist>>

(***************************************************************************)
(* Caption timing: texts, tokens and word similarity                       *)
(*                                                                         *)
(* Here a text is the sequence of its characters, and times are integers   *)
(* in tenths of a second over a common denominator (den).                  *)
(***************************************************************************)

LowerCase == <<"a", "b", "c", "d", "e", "f", "g", "h", "i", "j", "k", "l", "m",
               "n", "o", "p", "q", "r", "s", "t", "u", "v", "w", "x", "y", "z">>
UpperCase == <<"A", "B", "C", "D", "E", "F", "G", "H", "I", "J", "K", "L", "M",
               "N", "O", "P", "Q", "R", "S", "T", "U", "V", "W", "X", "Y", "Z">>
Digits == {"0", "1", "2", "3", "4", "5", "6", "7", "8", "9"}

\* The classes of the regular expressions: \w, [\w'], [,.!?:;\-] and \s.
WordChars == Range(LowerCase) \cup Range(UpperCase) \cup Digits \cup {"_"}
WordOrApostrophe == WordChars \cup {"'"}
Marks == {",", ".", "!", "?", ":", ";", "-"}
Whitespace == {" "}

\* str.lower().
LowerChar(c) ==
    IF c \in Range(UpperCase)
    THEN LowerCase[CHOOSE i \in 1..Len(UpperCase) : UpperCase[i] = c]
    ELSE c
Lower(text) == [i \in 1..Len(text) |-> LowerChar(text[i])]

\* The length of the longest run of characters of class in text from
\* position i on.
RunLengthAt(text, i, class) ==
    CHOOSE n \in 0..(Len(text) - i + 1) :
        /\ \A k \in i..(i + n - 1) : text[k] \in class
        /\ i + n > Len(text) \/ text[i + n] \notin class

\* The length of the longest prefix of text made of characters of class.
RunLength(text, class) == RunLengthAt(text, 1, class)

\* The positions where the successive matches of a pattern "a run of
\* characters of run, or one character of single" start in text: the matches
\* are found from left to right and do not overlap.
MatchStarts(text, run, single) ==
    { i \in 1..Len(text) :
        \/ text[i] \in run /\ (i = 1 \/ text[i - 1] \notin run)
        \/ text[i] \in single }

\* The match that starts at position i.
MatchAt(text, i, run) ==
    IF text[i] \in run
    THEN SubSeq(text, i, i + RunLengthAt(text, i, run) - 1)
    ELSE SubSeq(text, i, i)

\* re.findall of such a pattern: the matches in the order of their starts.
FindAll(text, run, single) ==
    CHOOSE matches \in
      { [k \in 1..Cardinality(starts) |->
            MatchAt(text, CHOOSE i \in starts :
                              Cardinality({ j \in starts : j < i }) = k - 1, run)]
          : starts \in {MatchStarts(text, run, single)} } : TRUE

\* Every character of the model's texts.
Characters == WordOrApostrophe \cup Marks \cup Whitespace \cup {"(", ")"}

\* str.strip().split(): the maximal runs of characters that are not whitespace.
Split(text) == FindAll(text, Characters \ Whitespace, {})

\* Variant of IsWordWithMarks: a group with a trailing mark is not a word.
IsWordWithoutMarks(group) ==
    /\ group # <<>>
    /\ \A i \in 1..Len(group) : group[i] \in WordOrApostrophe

\* re.match(r"^[\w']+[,.!?:;\-]*$", group): a word, then marks up to the end.
IsWordWithMarks(group) ==
    LET n == RunLength(group, WordOrApostrophe) IN
    /\ n >= 1
    /\ \A i \in (n + 1)..Len(group) : group[i] \in Marks

\* re.findall(r"[\w']+|[^\w\s]", group): the runs of word characters and
\* apostrophes, and every other character that is not whitespace, one by one.
FindParts(text) ==
    FindAll(text, WordOrApostrophe, Characters \ (WordOrApostrophe \cup Whitespace))

\* re.findall(r"[\w']+|[,.!?:;\-]", text): the runs of word characters and
\* apostrophes, and the marks one by one; any other character is skipped.
FindTokens(text) == FindAll(text, WordOrApostrophe, Marks)

\* video_service.py:363-375: the words of _generate_caption_timings.  A group
\* that is a word with trailing marks stays whole; any other group is split.
RECURSIVE WordsOfGroups(_)
WordsOfGroups(groups) ==
    IF groups = <<>> THEN <<>>
    ELSE (IF IsWordWithMarks(groups[1]) THEN <<groups[1]>>
          ELSE FindParts(groups[1]))
         \o WordsOfGroups(Tail(groups))

CaptionWords(script) ==
    CHOOSE words \in { WordsOfGroups(word_groups) : word_groups \in {Split(script)} } : TRUE

\* video_service.py:204: the script words of _align_transcription_with_script.
ScriptWords(script) ==
    CHOOSE script_words \in { FindTokens(text) : text \in {Lower(script)} } : TRUE

\* re.match(r'^[,.!?:;\-]$', word): the word is one mark.
IsMark(word) == Len(word) = 1 /\ word[1] \in Marks

\* A similarity value n/d, and the comparison of two of them.
Ratio(n, d) == [n |-> n, d |-> d]
Greater(s, t) == s.n * t.d > t.n * s.d

\* re.sub(r'[^\w\']', '', word.lower()).
CleanWord(word) == SelectSeq(Lower(word), LAMBDA c : c \in WordOrApostrophe)

\* The length of the longest common run of a from i and b from j.
RECURSIVE CommonRun(_, _, _, _, _, _)
CommonRun(a, b, i, j, ahi, bhi) ==
    IF i > ahi \/ j > bhi \/ a[i] # b[j] THEN 0
    ELSE 1 + CommonRun(a, b, i + 1, j + 1, ahi, bhi)

\* difflib.SequenceMatcher.find_longest_match on a[alo..ahi] and b[blo..bhi]:
\* the longest common block, the earliest in a and then in b among the longest.
Longest(blocks) ==
    CHOOSE m \in blocks :
        \A o \in blocks :
            \/ m.k > o.k
            \/ m.k = o.k /\ m.i < o.i
            \/ m.k = o.k /\ m.i = o.i /\ m.j <= o.j

\* (The set of blocks is bound once, by the set constructor.)
LongestMatch(a, b, alo, ahi, blo, bhi) ==
    CHOOSE m \in { Longest(blocks) :
                     blocks \in { { [i |-> i, j |-> j,
                                     k |-> CommonRun(a, b, i, j, ahi, bhi)]
                                      : i \in alo..ahi, j \in blo..bhi } } } : TRUE

\* difflib.SequenceMatcher.get_matching_blocks: the number of characters
\* matched by the longest block and, recursively, to its left and its right.
RECURSIVE MatchedChars(_, _, _, _, _, _)
MatchedChars(a, b, alo, ahi, blo, bhi) ==
    IF alo > ahi \/ blo > bhi THEN 0
    ELSE CHOOSE n \in
           { IF m.k = 0 THEN 0
             ELSE m.k + MatchedChars(a, b, alo, m.i - 1, blo, m.j - 1)
                      + MatchedChars(a, b, m.i + m.k, ahi, m.j + m.k, bhi)
               : m \in {LongestMatch(a, b, alo, ahi, blo, bhi)} } : TRUE

\* difflib.SequenceMatcher(None, a, b).ratio() = 2 * matches / (len(a) + len(b)).
SequenceRatio(a, b) ==
    Ratio(2 * MatchedChars(a, b, 1, Len(a), 1, Len(b)), Len(a) + Len(b))

\* Variant of WordSimilarity: short words are compared like long ones.
WordSimilarityRatioOnly(word1, word2) ==
    IF word1 = <<>> \/ word2 = <<>> THEN Ratio(0, 1)
    ELSE IF word1 = word2 THEN Ratio(1, 1)
    ELSE CHOOSE similarity \in
           { IF w1 = <<>> \/ w2 = <<>> THEN Ratio(0, 1)
             ELSE SequenceRatio(w1, w2)
               : w1 \in {CleanWord(word1)}, w2 \in {CleanWord(word2)} } : TRUE

\* Variant of WordSimilarity: the words are compared after the clean-up only,
\* without the tests for an empty word.
WordSimilarityStripped(word1, word2) ==
    CHOOSE similarity \in
      { IF Len(w1) <= 2 \/ Len(w2) <= 2
        THEN IF w1 = w2 THEN Ratio(1, 1) ELSE Ratio(0, 1)
        ELSE SequenceRatio(w1, w2)
          : w1 \in {CleanWord(word1)}, w2 \in {CleanWord(word2)} } : TRUE

\* video_service.py:283-313.
WordSimilarity(word1, word2) ==
    IF word1 = <<>> \/ word2 = <<>> THEN Ratio(0, 1)
    ELSE IF word1 = word2 THEN Ratio(1, 1)
    ELSE CHOOSE similarity \in
           { IF w1 = <<>> \/ w2 = <<>> THEN Ratio(0, 1)
             ELSE IF Len(w1) <= 2 \/ Len(w2) <= 2
                  THEN IF w1 = w2 THEN Ratio(1, 1) ELSE Ratio(0, 1)
                  ELSE SequenceRatio(w1, w2)
               : w1 \in {CleanWord(word1)}, w2 \in {CleanWord(word2)} } : TRUE

(***************************************************************************)
(* Strategy A: VideoService._generate_caption_timings                      *)
(***************************************************************************)

\* video_service.py:389-394 and 412-418: the weight of a word that is not a
\* mark, in tenths: 0.7 up to 2 characters, 0.9 up to 4, else 1.0 plus 0.1 for
\* each character over 5, at most 0.5.
WordWeight(word) ==
    IF Len(word) <= 2 THEN 7
    ELSE IF Len(word) <= 4 THEN 9
    ELSE 10 + Min(5, Len(word) - 5)

\* video_service.py:382-394: the weight a word adds to total_word_weights.
TotalWeight(word) == IF IsMark(word) THEN 5 ELSE WordWeight(word)

\* Variant of DurationWeight: every word has the same duration.
DurationWeightFlat(word) == 10

\* video_service.py:405-418: the weight that times base_word_duration is the
\* duration of the word; a mark of ".!?" gets 0.8.
DurationWeight(word) ==
    IF IsMark(word)
    THEN IF word[1] \in {".", "!", "?"} THEN 8 ELSE 5
    ELSE WordWeight(word)

\* The sum of the first n numbers.
RECURSIVE SumTo(_, _)
SumTo(numbers, n) == IF n = 0 THEN 0 ELSE numbers[n] + SumTo(numbers, n - 1)

Sum(numbers) == SumTo(numbers, Len(numbers))

\* video_service.py:382-394: total_word_weights.
TotalWordWeights(words) == Sum([i \in 1..Len(words) |-> TotalWeight(words[i])])

\* Variant of Highlighted: marks are highlighted like words.
HighlightedEveryFourth(i, word) == i % 4 = 0

\* video_service.py:421: every 4th word, counted from 0 and unless it is a mark.
Highlighted(i, word) == (i % 4 = 0) /\ ~IsMark(word)

\* Variant of WordMeta: the end of a word is where it starts.
WordMetaNoDuration(word, i, current_time, duration) ==
    [word        |-> word,
     start       |-> current_time,
     end         |-> current_time,
     highlighted |-> Highlighted(i, word)]

\* video_service.py:423-428: the entry of word number i (from 0), which starts
\* at current_time.  base_word_duration is duration / total_word_weights, so
\* over the denominator total_word_weights the word lasts duration * weight.
WordMeta(word, i, current_time, duration) ==
    [word        |-> word,
     start       |-> current_time,
     end         |-> current_time + duration * DurationWeight(word),
     highlighted |-> Highlighted(i, word)]

\* video_service.py:403-430: the loop over the words from number i on (from
\* 0), the word of the iteration being bound to its entry once.
RECURSIVE WordsMeta(_, _, _, _)
WordsMeta(words, i, current_time, duration) ==
    IF i >= Len(words) THEN <<>>
    ELSE CHOOSE words_meta \in
           { <<meta>> \o WordsMeta(words, i + 1, meta.end, duration)
               : meta \in {WordMeta(words[i + 1], i, current_time, duration)} } : TRUE

\* video_service.py:380-437: the one segment of the words, from 0 to duration.
\* Times are over the denominator den.
CaptionSegment(words, duration) ==
    <<[start |-> 0,
       end   |-> duration * TotalWordWeights(words),
       den   |-> TotalWordWeights(words),
       words |-> WordsMeta(words, 0, 0, duration)]>>

\* Variant of GenerateCaptionTimings: no timings for a script of one word.
GenerateCaptionTimingsSkipsOne(script, duration) ==
    CHOOSE caption_data \in
      { IF Len(words) <= 1 THEN <<>> ELSE CaptionSegment(words, duration)
          : words \in {CaptionWords(script)} } : TRUE

\* video_service.py:345-442: no segment for a script without words, else the
\* segment of its words (the words are bound once, by the set constructor).
GenerateCaptionTimings(script, duration) ==
    CHOOSE caption_data \in
      { IF words = <<>> THEN <<>> ELSE CaptionSegment(words, duration)
          : words \in {CaptionWords(script)} } : TRUE

(***************************************************************************)
(* Strategy B: VideoService._align_transcription_with_script               *)
(***************************************************************************)

\* video_service.py:225: the look-ahead window, in transcribed words.
LookAhead == 10

\* video_service.py:232: the similarity a match must exceed, 0.6.
Threshold == Ratio(6, 10)

\* video_service.py:256: the duration given to a word without a match, 0.2 s.
UnmatchedDuration == 2

\* Variant of IsBetter: a candidate as good as the threshold is accepted.
IsBetterOrAtThreshold(similarity, best_match_score) ==
    Greater(similarity, best_match_score) /\ ~Greater(Threshold, similarity)

\* Variant of IsBetter: a candidate as good as the best so far replaces it.
IsBetterOrEqual(similarity, best_match_score) ==
    ~Greater(best_match_score, similarity) /\ Greater(similarity, Threshold)

\* video_service.py:232: the candidate replaces the best match so far.
IsBetter(similarity, best_match_score) ==
    Greater(similarity, best_match_score) /\ Greater(similarity, Threshold)

\* video_service.py:222-234: the loop over look_ahead, from look_ahead on, with
\* the best match so far (best_match_idx is -1 for None).  The similarity of an
\* iteration is bound once, by the set constructor.
RECURSIVE BestMatch(_, _, _, _, _, _)
BestMatch(script_word, transcribed_words, trans_idx, look_ahead, best_match_idx, best_match_score) ==
    IF look_ahead >= Min(LookAhead, Len(transcribed_words) - trans_idx)
    THEN best_match_idx
    ELSE CHOOSE best \in
           { IF IsBetter(similarity, best_match_score)
             THEN BestMatch(script_word, transcribed_words, trans_idx,
                            look_ahead + 1, trans_idx + look_ahead, similarity)
             ELSE BestMatch(script_word, transcribed_words, trans_idx,
                            look_ahead + 1, best_match_idx, best_match_score)
               : similarity \in
                   {WordSimilarity(script_word,
                                   transcribed_words[trans_idx + look_ahead + 1])} } : TRUE

\* Variant of MatchedWord: the word is given the synthetic duration.
MatchedWordSynthetic(script_word, script_idx, timing) ==
    [word        |-> script_word,
     start       |-> timing.start,
     end         |-> timing.start + UnmatchedDuration,
     highlighted |-> Highlighted(script_idx, script_word)]

\* video_service.py:238-244: the entry of a script word matched to timing.
MatchedWord(script_word, script_idx, timing) ==
    [word        |-> script_word,
     start       |-> timing.start,
     end         |-> timing.end,
     highlighted |-> Highlighted(script_idx, script_word)]

\* video_service.py:253-261: the entry of a script word without a match, at
\* the transcribed word timing the transcript cursor is on.
UnmatchedWord(script_word, script_idx, timing) ==
    [word        |-> script_word,
     start       |-> timing.start,
     end         |-> timing.start + UnmatchedDuration,
     highlighted |-> Highlighted(script_idx, script_word)]

\* Variant of NextTransIdx: the transcript cursor moves on by one in any case.
NextTransIdxAlways(trans_idx, best_match_idx) ==
    IF best_match_idx # -1 THEN best_match_idx + 1 ELSE trans_idx + 1

\* video_service.py:248 and 263: the transcript cursor goes past the
\* matched word, or stays.
NextTransIdx(trans_idx, best_match_idx) ==
    IF best_match_idx # -1 THEN best_match_idx + 1 ELSE trans_idx

\* video_service.py:218: the condition of the alignment loop.
Aligning(a) ==
    a.script_idx < Len(a.script_words) /\ a.trans_idx < Len(a.whisper_words)

\* video_service.py:206: the transcribed words in lower case.
TranscribedWordsOf(whisper_words) ==
    [i \in 1..Len(whisper_words) |-> Lower(whisper_words[i].word)]

\* video_service.py:219-234: the transcribed word that best matches the script
\* word under the cursor, -1 for none.
BestMatchOf(a) ==
    CHOOSE best_match_idx \in
      { BestMatch(a.script_words[a.script_idx + 1], transcribed_words, a.trans_idx,
                  0, -1, Ratio(0, 1))
          : transcribed_words \in {TranscribedWordsOf(a.whisper_words)} } : TRUE

\* Variant of Aligned: a word without a match gets no entry.
AlignedDropsUnmatched(a, best_match_idx) ==
    [a EXCEPT !.aligned_words =
                  IF best_match_idx # -1
                  THEN Append(@, MatchedWord(a.script_words[a.script_idx + 1],
                                             a.script_idx,
                                             a.whisper_words[best_match_idx + 1]))
                  ELSE @,
              !.matched = Append(@, best_match_idx),
              !.script_idx = @ + 1,
              !.trans_idx = NextTransIdx(@, best_match_idx)]

\* Variant of Aligned: a word without a match is put at the last transcribed
\* word.
AlignedUnmatchedAtEnd(a, best_match_idx) ==
    [a EXCEPT !.aligned_words =
                  Append(@, IF best_match_idx # -1
                            THEN MatchedWord(a.script_words[a.script_idx + 1],
                                             a.script_idx,
                                             a.whisper_words[best_match_idx + 1])
                            ELSE UnmatchedWord(a.script_words[a.script_idx + 1],
                                               a.script_idx,
                                               a.whisper_words[Len(a.whisper_words)])),
              !.matched = Append(@, best_match_idx),
              !.script_idx = @ + 1,
              !.trans_idx = NextTransIdx(@, best_match_idx)]

\* Variant of Aligned: a word without a match is tried again.
AlignedStuck(a, best_match_idx) ==
    IF best_match_idx = -1 THEN a
    ELSE [a EXCEPT !.aligned_words =
                       Append(@, MatchedWord(a.script_words[a.script_idx + 1],
                                             a.script_idx,
                                             a.whisper_words[best_match_idx + 1])),
                   !.matched = Append(@, best_match_idx),
                   !.script_idx = @ + 1,
                   !.trans_idx = NextTransIdx(@, best_match_idx)]

\* video_service.py:236-263: the entry appended and the cursors moved, given
\* the best match.
Aligned(a, best_match_idx) ==
    [a EXCEPT !.aligned_words =
                  Append(@, IF best_match_idx # -1
                            THEN MatchedWord(a.script_words[a.script_idx + 1],
                                             a.script_idx,
                                             a.whisper_words[best_match_idx + 1])
                            ELSE UnmatchedWord(a.script_words[a.script_idx + 1],
                                               a.script_idx,
                                               a.whisper_words[a.trans_idx + 1])),
              !.matched = Append(@, best_match_idx),
              !.script_idx = @ + 1,
              !.trans_idx = NextTransIdx(@, best_match_idx)]

\* video_service.py:218-263: one iteration of the alignment loop.
AlignIteration(a) ==
    CHOOSE next \in
      { Aligned(a, best_match_idx) : best_match_idx \in {BestMatchOf(a)} } : TRUE

\* Variant of SortedByStart: the words are left as they are.
Unsorted(words) == words

\* list.sort(key=lambda w: w['start']): a stable sort by start.  The place of
\* a word is the number of words that start before it, or with it and come
\* before it.
SortedByStart(words) ==
    [k \in 1..Len(words) |->
        words[CHOOSE i \in 1..Len(words) :
                 Cardinality({ j \in 1..Len(words) :
                                  \/ words[j].start < words[i].start
                                  \/ words[j].start = words[i].start /\ j < i })
                     = k - 1]]

\* video_service.py:265-281: what the alignment returns after the loop: one
\* segment of the aligned words sorted by start, ending 1 s after the last; or,
\* with no aligned word, the estimate over the end of the last transcribed word.
AlignedCaptionData(a) ==
    IF a.aligned_words # <<>>
    THEN LET aligned_words == SortedByStart(a.aligned_words) IN
         <<[start |-> 0,
            end   |-> aligned_words[Len(aligned_words)].end + 10,
            den   |-> 1,
            words |-> aligned_words]>>
    ELSE GenerateCaptionTimings(a.script,
                                a.whisper_words[Len(a.whisper_words)].end)

(***************************************************************************)
(* VideoService._get_whisper_timestamps, call by call                      *)
(***************************************************************************)

\* video_service.py:124-139: the transcription; timed words start the
\* alignment, no word or an exception falls back to the estimate over the
\* duration of the audio.
WhisperTranscribe(r) ==
    /\ pc[r] = "whisper"
    /\ LET a == local[r].align
           t == a.transcription IN
       IF ~t.raises /\ t.words # <<>>
       THEN /\ local' = [local EXCEPT ![r].align =
                           [a EXCEPT !.whisper_words = t.words,
                                     !.script_words = ScriptWords(a.script),
                                     !.script_idx = 0,
                                     !.trans_idx = 0,
                                     !.aligned_words = <<>>]]
            /\ pc' = [pc EXCEPT ![r] = "align"]
       ELSE /\ local' = [local EXCEPT
                           ![r].align.caption_data =
                               GenerateCaptionTimings(a.script, a.audio_duration),
                           ![r].caption_data =
                               [strategy |-> "A", duration |-> "audio"]]
            /\ pc' = [pc EXCEPT ![r] = "timed"]
    /\ UNCHANGED <<request, use_mock, venice_dir, video_dir, upload, outcome, hist>>

\* video_service.py:218-263: one iteration of the alignment loop.
AlignWord(r) ==
    /\ pc[r] = "align"
    /\ Aligning(local[r].align)
    /\ local' = [local EXCEPT ![r].align = AlignIteration(@)]
    /\ UNCHANGED <<request, use_mock, venice_dir, video_dir, pc, upload, outcome,
                   hist>>

\* video_service.py:265-281: the loop is over, the caption data is returned.
AlignReturn(r) ==
    /\ pc[r] = "align"
    /\ ~Aligning(local[r].align)
    /\ local' = [local EXCEPT
                   ![r].align.caption_data = AlignedCaptionData(local[r].align),
                   ![r].caption_data =
                       IF local[r].align.aligned_words # <<>>
                       THEN [strategy |-> "B", duration |-> "transcript"]
                       ELSE [strategy |-> "A", duration |-> "transcript"]]
    /\ pc' = [pc EXCEPT ![r] = "timed"]
    /\ UNCHANGED <<request, use_mock, venice_dir, video_dir, upload, outcome, hist>>

(***************************************************************************)
(* Specifications                                                          *)
(***************************************************************************)

Step(r) ==
    \/ GenerateScript(r)
    \/ GenerateTts(r)
    \/ ImagePrompts(r)
    \/ ImageBatch(r)
    \/ ImageRemaining(r)
    \/ ImageFallback(r)
    \/ LoadClips(r)
    \/ Captions(r)
    \/ WriteVideo(r)
    \/ UploadThumbnail(r)
    \/ UploadVideo(r)
    \/ UploadMetadata(r)
    \/ Finish(r)

\* One run in isolation: run r1 alone, with every request generate_content
\* accepts; r2 is never started.
Alone == {"r1"}

\* main.py:74-78: the calls main.generate makes, and those of them made for a
\* request that leaves the target duration at its default.
ApiRequests == { q \in Requests : q.image_count = <<>> /\ q.ticker = None }
DefaultRequests == { q \in ApiRequests : q.duration = TargetDuration }

Init ==
    /\ InitWith(Requests)
    /\ \A r \in Runs \ Alone : request[r] \in DefaultRequests

Next == \E r \in Alone : Step(r)

Spec == Init /\ [][Next]_vars

\* One run in isolation that may be cancelled at any call it is suspended in.
NextCancel ==
    \/ \E r \in Alone : Step(r)
    \/ \E r \in Alone : Cancel(r)

SpecCancel == Init /\ [][NextCancel]_vars

\* The cleanup methods called on their own, on services whose temp directories
\* hold files left by earlier runs: VeniceService.cleanup (synchronous) and
\* VideoService.cleanup (a coroutine without an await), each called on the
\* services of one GenerationService any number of times up to MaxCleanupCalls.
VeniceLeftovers == { File(r, ext, 1) : r \in Runs, ext \in {"mp3", "png"} }
VideoLeftovers == { File(r, "mp4", 1) : r \in Runs }

InitCleanup ==
    /\ request \in [Runs -> DefaultRequests]
    /\ use_mock \in BOOLEAN
    /\ venice_dir \in SUBSET VeniceLeftovers
    /\ video_dir \in SUBSET VideoLeftovers
    /\ pc = [r \in Runs |-> "script"]
    /\ local = [r \in Runs |-> InitLocal]
    /\ upload = [r \in Runs |-> InitUpload]
    /\ outcome = [r \in Runs |-> InitOutcome]
    /\ hist = [r \in Runs |-> InitHist]

\* venice_service.py:290-297, called on the VeniceService of r.
VeniceServiceCleanup(r) ==
    /\ hist[r].cleanups < MaxCleanupCalls
    /\ \E failing \in UnlinkFailures(venice_dir) :
          LET c == VeniceCleanup(venice_dir, failing) IN
          /\ venice_dir' = venice_dir \ c.removed
          /\ hist' = [hist EXCEPT ![r] = Cleaned(@, c)]
          /\ outcome' = [outcome EXCEPT ![r].raised =
                            IF c.raised THEN Append(@, "cleanup") ELSE @]
    /\ UNCHANGED <<request, use_mock, video_dir, pc, local, upload>>

\* video_service.py:541-549, called on the VideoService of r.
VideoServiceCleanup(r) ==
    /\ hist[r].video_cleanups < MaxCleanupCalls
    /\ \E failing \in UnlinkFailures(video_dir) :
          LET c == VideoCleanup(video_dir, failing) IN
          /\ video_dir' = video_dir \ c.removed
          /\ hist' = [hist EXCEPT ![r].video_cleanups = @ + 1,
                                  ![r].video_cleanup = c]
          /\ outcome' = [outcome EXCEPT ![r].raised =
                            IF c.raised THEN Append(@, "cleanup") ELSE @]
    /\ UNCHANGED <<request, use_mock, venice_dir, pc, local, upload>>

NextCleanup ==
    \/ \E r \in Alone : VeniceServiceCleanup(r)
    \/ \E r \in Alone : VideoServiceCleanup(r)

SpecCleanup == InitCleanup /\ [][NextCleanup]_vars

\* Two concurrent runs, both started by main.generate (which passes content,
\* style and duration only).  To keep the interleavings enumerable this
\* specification follows the runs in which no upload attempt fails, no unlink
\* fails, the transcript is not empty and the audio is shorter than 10 seconds.
ConcScope ==
    \A r \in Runs :
        /\ upload[r].attempt_number = 1
        /\ hist[r].failed["thumbnail"] + hist[r].failed["video"]
               + hist[r].failed["metadata"] = 0
        /\ local[r].audio_duration < 100
        /\ hist[r].cleanup.failed = {}
        /\ local[r].transcript # "empty"

InitConc == InitWith(DefaultRequests)

NextConc == (\E r \in Runs : Step(r)) /\ ConcScope'

SpecConc == InitConc /\ [][NextConc]_vars

\* The caption computation alone, of one run, for every script, audio duration
\* and transcript of the sets below.
MaxScriptGroups == 2
MaxTranscriptWords == 2

\* Whitespace-separated groups a script is made of.
ScriptGroups ==
    { <<"H", "e", "l", "l", "o">>,
      <<"w", "o", "r", "l", "d", ".">>,
      <<"i", "t", "'", "s">>,
      <<"I">>,
      <<".">>,
      <<"-">>,
      <<"(", "o", "k", ")">>,
      <<"w", "a", "i", "t", ".", ".", ".", "w", "h", "a", "t">>,
      <<"e", "x", "t", "r", "a", "o", "r", "d", "i", "n", "a", "r", "i", "l", "y">> }

\* The groups of the scripts that are aligned with a transcript.
AlignedGroups ==
    { <<"H", "e", "l", "l", "o">>,
      <<"w", "o", "r", "l", "d", ".">>,
      <<"I">>,
      <<".">>,
      <<"(">> }

\* The words a transcript is made of, and the word of no script.
TranscribedWords ==
    { <<"H", "e", "l", "l", "o">>,
      <<"h", "e", "l", "p", "s">>,
      <<"w", "o", "r", "l", "d", ".">>,
      <<"I">>,
      <<".">> }
Filler == <<"u", "m">>

\* ' '.join(groups).
RECURSIVE Join(_)
Join(groups) ==
    IF groups = <<>> THEN <<>>
    ELSE IF Len(groups) = 1 THEN groups[1]
    ELSE groups[1] \o <<" ">> \o Join(Tail(groups))

ScriptsOf(groups) ==
    { Join(gs) : gs \in UNION { [1..n -> groups] : n \in 0..MaxScriptGroups } }

\* The duration of the audio, in tenths of a second.
CaptionDurations == {20, 99}

\* video_service.py:172-186: the transcribed words with the timings the model
\* reports.  "even": word k is heard from 0.5 * (k - 1) s to 0.5 * k s;
\* "instant": it starts there and ends at once; "backwards": the timings are
\* those of "even" in the reverse order.
Timed(words, timing) ==
    [k \in 1..Len(words) |->
        [word  |-> words[k],
         start |-> IF timing = "backwards" THEN 5 * (Len(words) - k) ELSE 5 * (k - 1),
         end   |-> IF timing = "backwards" THEN 5 * (Len(words) - k + 1)
                   ELSE IF timing = "instant" THEN 5 * (k - 1)
                   ELSE 5 * k]]

\* The word sequences of the transcripts: up to MaxTranscriptWords words.
Transcribed == UNION { [1..n -> TranscribedWords] : n \in 1..MaxTranscriptWords }

\* Transcripts: the word sequences with each timing; one word, evenly timed,
\* after one filler word less than the look-ahead window or after as many as
\* the window; and one word after a comma heard as a word.
WhisperWords ==
    { Timed(ws, timing) : ws \in Transcribed, timing \in {"even", "instant", "backwards"} }
    \cup { Timed([k \in 1..fillers |-> Filler] \o <<w>>, "even") :
              fillers \in {LookAhead - 1, LookAhead}, w \in TranscribedWords }
    \cup { Timed(<<<<",">>, w>>, "even") : w \in TranscribedWords }

CaptionInputs ==
    { [NoAlign EXCEPT !.script = s, !.audio_duration = d,
                      !.transcription = [raises |-> x, words |-> <<>>]] :
        s \in ScriptsOf(ScriptGroups), d \in CaptionDurations, x \in BOOLEAN }
    \cup
    { [NoAlign EXCEPT !.script = s, !.audio_duration = 20,
                      !.transcription = [raises |-> FALSE, words |-> w]] :
        s \in ScriptsOf(AlignedGroups), w \in WhisperWords }

InitCaptionsWith(inputs) ==
    /\ request \in [Runs -> {CHOOSE q \in DefaultRequests : TRUE}]
    /\ use_mock = FALSE
    /\ venice_dir = {}
    /\ video_dir = {}
    /\ pc = [r \in Runs |-> IF r \in Alone THEN "whisper" ELSE "script"]
    /\ \E a \in inputs :
          local = [r \in Runs |-> IF r \in Alone
                                  THEN [InitLocal EXCEPT !.align = a]
                                  ELSE InitLocal]
    /\ upload = [r \in Runs |-> InitUpload]
    /\ outcome = [r \in Runs |-> InitOutcome]
    /\ hist = [r \in Runs |-> InitHist]

InitCaptions == InitCaptionsWith(CaptionInputs)

NextCaptions ==
    \E r \in Alone : WhisperTranscribe(r) \/ AlignWord(r) \/ AlignReturn(r)

SpecCaptions == InitCaptions /\ [][NextCaptions]_vars

\* video_service.py:218-281: the alignment has no await: once entered, its
\* loop and its return run to the end without being suspended.
Align == \E r \in Alone : AlignWord(r) \/ AlignReturn(r)

\* The calls that reach the alignment: a script and an evenly timed transcript
\* of at least one word.
AlignInputs ==
    { [NoAlign EXCEPT !.script = s, !.audio_duration = 20,
                      !.transcription = [raises |-> FALSE,
                                         words  |-> Timed(ws, "even")]] :
        s \in ScriptsOf(AlignedGroups), ws \in Transcribed }

InitAlign == InitCaptionsWith(AlignInputs)

SpecCaptionsFair == InitAlign /\ [][NextCaptions]_vars /\ WF_vars(Align)

(***************************************************************************)
(* VideoService._word_similarity on its own                                *)
(***************************************************************************)

\* The words compared: none, a word as written, in lower case, with a mark,
\* with an apostrophe, words of one and two letters, and marks heard as words.
ComparedWords ==
    { <<>>,
      <<"H", "e", "l", "l", "o">>,
      <<"h", "e", "l", "l", "o">>,
      <<"H", "e", "l", "l", "o", "!">>,
      <<"h", "e", "l", "p", "s">>,
      <<"I">>,
      <<"i", "t">>,
      <<"I", "t", ".">>,
      <<"i", "t", "'", "s">>,
      <<".">>,
      <<",">> }

\* video_service.py:283-313: one call of _word_similarity.
Compare(r) ==
    /\ pc[r] = "compare"
    /\ local' = [local EXCEPT ![r].align.similarity =
                    WordSimilarity(local[r].align.word1, local[r].align.word2)]
    /\ pc' = [pc EXCEPT ![r] = "compared"]
    /\ UNCHANGED <<request, use_mock, venice_dir, video_dir, upload, outcome, hist>>

InitSimilarity ==
    /\ request \in [Runs -> {CHOOSE q \in DefaultRequests : TRUE}]
    /\ use_mock = FALSE
    /\ venice_dir = {}
    /\ video_dir = {}
    /\ pc = [r \in Runs |-> IF r \in Alone THEN "compare" ELSE "script"]
    /\ \E word1, word2 \in ComparedWords :
          local = [r \in Runs |-> IF r \in Alone
                                  THEN [InitLocal EXCEPT !.align.word1 = word1,
                                                         !.align.word2 = word2]
                                  ELSE InitLocal]
    /\ upload = [r \in Runs |-> InitUpload]
    /\ outcome = [r \in Runs |-> InitOutcome]
    /\ hist = [r \in Runs |-> InitHist]

NextSimilarity == \E r \in Alone : Compare(r)

SpecSimilarity == InitSimilarity /\ [][NextSimilarity]_vars

(***************************************************************************)
(* Properties                                                              *)
(***************************************************************************)

\* The position of stage s in the pipeline.
StageRank(s) == CHOOSE i \in 1..Len(StageOrder) : StageOrder[i] = s

Ended(r) == pc[r] \in {"returned", "raised"}

\* The stages whose single call is made once by generate_content, and the
\* uploads, which tenacity repeats.
SingleCallStages == {"script", "speech", "render"}
UploadStages == {"thumbnail", "video", "metadata"}

\* Stage s of run r has failed for good: its only call raised, or its last
\* permitted attempt did.
StageFailed(r, s) ==
    \/ s \in SingleCallStages /\ hist[r].failed[s] >= 1
    \/ s \in UploadStages /\ hist[r].failed[s] >= MaxAttempts

\* C1: when a stage of generate_content fails, the run ends there: no
\* collaborator of a later stage has been called, exactly one error is
\* propagated to the caller, and no result is returned.
C1_FailureStopsRun ==
    \A r \in Runs :
        /\ \A s \in Stages :
              StageFailed(r, s) => pc[r] = "raised" /\ outcome[r].raised = <<s>>
        /\ outcome[r].raised # <<>> =>
              /\ pc[r] = "raised"
              /\ Len(outcome[r].raised) = 1
              /\ outcome[r].returned = <<>>
              /\ hist[r].state = "Errored"
              /\ \A t \in Stages :
                    StageRank(t) > StageRank(outcome[r].raised[1])
                        => hist[r].calls[t] = 0

\* A run whose video upload failed for good after script, speech, images and
\* rendering had succeeded.
C1_Witness ==
    \E r \in Runs :
        /\ outcome[r].raised = <<"video">>
        /\ {"script", "speech", "images", "render", "thumbnail"} \subseteq hist[r].done
        /\ hist[r].calls["metadata"] = 0

\* C2: every run of generate_content calls the cleanup exactly once, on every
\* exit path: after the metadata upload and before the result on success,
\* before the error is propagated on failure; never while the run is going.
C2_CleanupOncePerRun ==
    \A r \in Runs :
        LET tr == hist[r].trace
            n == Len(tr) IN
        /\ Ended(r) => hist[r].cleanups = 1 /\ n >= 2 /\ tr[n - 1] = "cleanup"
        /\ pc[r] = "returned" =>
              tr[n] = "result" /\ n >= 3 /\ tr[n - 2] = "metadata"
        /\ pc[r] = "raised" => tr[n] = "error"
        /\ ~Ended(r) => hist[r].cleanups = 0 /\ "cleanup" \notin Range(tr)

\* A run that returned its result after one cleanup.
C2_Witness ==
    \E r \in Runs :
        /\ pc[r] = "returned"
        /\ hist[r].cleanups = 1
        /\ Len(outcome[r].returned) = 1

\* The files run r created that are still on disk.
Artifacts(r) == { f \in venice_dir \cup video_dir : f.owner = r }

\* C3: when a run of generate_content has ended, by returning or by raising,
\* no audio, image or video file created during the run remains on disk
\* (but for a file whose removal was tried and failed).
C3_NoArtifactRemains ==
    \A r \in Runs : Ended(r) => Artifacts(r) \subseteq hist[r].cleanup.failed

\* The files of run r that a later step of the run still reads: the audio
\* until the video is written, the images until the clips are loaded, and the
\* first image until it is uploaded as the thumbnail.
InUse(r) ==
    (IF pc[r] \in {"img_prompts", "img_batch", "img_remaining", "img_fallback",
                   "load", "captions", "write"}
     THEN {local[r].audio_file} ELSE {})
    \cup (IF pc[r] = "load" THEN Range(local[r].image_files) ELSE {})
    \cup (IF pc[r] \in {"captions", "write", "thumb"}
          THEN {local[r].image_files[1]} ELSE {})

\* C4: with concurrent runs, each run's artifacts are its own: no cleanup of
\* another run removes an audio or image file the run has not finished using,
\* so every such file is on disk for as long as the run needs it.
C4_ArtifactsOwnedByRun ==
    \A r \in Runs : InUse(r) \subseteq venice_dir

StateRank(st) == CHOOSE i \in 1..Len(StateOrder) : StateOrder[i] = st

\* The calls of a complete run, in order of first occurrence.
FullTrace == StageOrder \o <<"cleanup", "result">>

IsPrefix(s, t) == Len(s) <= Len(t) /\ s = SubSeq(t, 1, Len(s))

\* The stages are first called in pipeline order, and a stage is called only
\* when every stage called before it has completed.
TraceInOrder(r) ==
    LET tr == hist[r].trace IN
    /\ \/ IsPrefix(tr, FullTrace)
       \/ \E k \in 0..Len(StageOrder) :
             tr = SubSeq(StageOrder, 1, k) \o <<"cleanup", "error">>
    /\ \A i \in 1..Len(tr) : \A j \in 1..(i - 1) :
          tr[i] \in Stages => tr[j] \in hist[r].done

\* The run state moves one step forward, or from a state that is not final
\* to Errored.
StateForward(r) ==
    hist'[r].state # hist[r].state =>
        /\ hist[r].state \notin {"Done", "Errored"}
        /\ \/ hist'[r].state = "Errored"
           \/ StateRank(hist'[r].state) = StateRank(hist[r].state) + 1

StoredUri(r, s) ==
    LET got == { i \in 1..Len(hist[r].stored) : hist[r].stored[i].stage = s } IN
    IF got = {} THEN NoUri ELSE hist[r].stored[CHOOSE i \in got : TRUE].uri

\* C6: generate_content never returns a partial result: a result is returned
\* only when script, speech, images, rendering, video upload and metadata
\* upload have all succeeded, and it carries the URIs the store returned for
\* the metadata and the video and the script that was narrated.
C6_NoPartialResult ==
    \A r \in Runs :
        /\ pc[r] = "returned" => Len(outcome[r].returned) = 1
        /\ outcome[r].returned # <<>> =>
              LET res == outcome[r].returned[1] IN
              /\ Len(outcome[r].returned) = 1
              /\ outcome[r].raised = <<>>
              /\ {"script", "speech", "images", "render", "video", "metadata"}
                    \subseteq hist[r].done
              /\ res.metadata_uri = StoredUri(r, "metadata")
              /\ res.metadata_uri # NoUri
              /\ res.video_uri = StoredUri(r, "video")
              /\ res.video_uri # NoUri
              /\ hist[r].narrated = <<res.script>>

\* A run that returned a result.
C6_Witness ==
    \E r \in Runs :
        /\ Len(outcome[r].returned) = 1
        /\ outcome[r].returned[1].script = "Hello world."
        /\ outcome[r].returned[1].video_uri = UploadedUri(local[r].video_file)

\* The call run r is suspended at belongs to upload stage s.
Uploading(r, s) ==
    \/ s = "thumbnail" /\ pc[r] = "thumb"
    \/ s = "video" /\ pc[r] = "video"
    \/ s = "metadata" /\ pc[r] = "meta"

\* C7: each upload (upload_file, upload_json) is attempted at most 3 times;
\* it returns with the URI of its first successful attempt, every earlier
\* attempt having failed and none following; and it fails, failing the run at
\* that upload, only after 3 failed attempts.
C7_UploadRetriedUpToThree ==
    \A r \in Runs : \A s \in UploadStages :
        LET calls == hist[r].calls[s]
            failed == hist[r].failed[s] IN
        /\ calls <= 3
        /\ s \in hist[r].done =>
              /\ failed = calls - 1
              /\ StoredUri(r, s).scheme # None
              /\ ~Uploading(r, s)
        /\ outcome[r].raised = <<s>> => failed = 3 /\ calls = 3
        /\ (failed = calls /\ calls < 3) =>
              \/ calls = 0
              \/ Uploading(r, s) /\ upload[r].attempt_number = calls + 1

\* A metadata upload that succeeded on its third attempt.
C7_Witness ==
    \E r \in Runs :
        /\ "metadata" \in hist[r].done
        /\ hist[r].calls["metadata"] = 3
        /\ hist[r].failed["metadata"] = 2

NonRetriable == {"malformed", "not_found"}

\* C8: only transient upload failures are retried: after a non-retriable
\* failure of upload_file or upload_json (malformed store response, missing
\* file) the error is propagated at once, the upload having been attempted
\* a single time.
C8_NonRetriablePropagates ==
    \A r \in Runs :
        upload[r].last_failure \in NonRetriable =>
            /\ pc[r] = "raised"
            /\ \A s \in UploadStages : hist[r].calls[s] <= 1

\* C9 as stated: the wait after the 1st failed attempt is 2, the wait after
\* the 2nd failed attempt is 4, and no wait exceeds 10.
C9_BackoffDoubles ==
    \A r \in Runs :
        LET w == upload[r].waits IN
        /\ Len(w) >= 1 => w[1] = 2
        /\ Len(w) >= 2 => w[2] = 4
        /\ \A i \in 1..Len(w) : w[i] <= 10

\* C9 amended: the wait after the 1st failed attempt is 2 and the wait after
\* the 2nd failed attempt is 2 as well (1 * 2^(n-1) raised to the minimum of
\* 2), one wait per failed attempt that is followed by another, and no wait
\* exceeds 10.
C9_BackoffClamped ==
    \A r \in Runs :
        LET w == upload[r].waits IN
        /\ Len(w) = upload[r].attempt_number - 1
        /\ Len(w) >= 1 => w[1] = 2
        /\ Len(w) >= 2 => w[2] = 2
        /\ \A i \in 1..Len(w) : w[i] <= 10

\* An upload about to make its third attempt, two waits behind it.
C9_Witness ==
    \E r \in Runs : upload[r].attempt_number = 3 /\ Len(upload[r].waits) = 2

\* C10 as stated: no call of the script, speech, image or rendering stage is
\* issued after a call of that stage has failed, and script, speech and
\* rendering are each called at most once per run.
C10_NoCallAfterFailure ==
    \A r \in Runs :
        /\ \A s \in SingleCallStages \cup {"images"} : hist[r].after_fail[s] = 0
        /\ \A s \in SingleCallStages : hist[r].calls[s] <= 1

\* The image stage of run r is over: its list was returned, or it raised.
ImagesOver(r) == "images" \in hist[r].done \/ outcome[r].raised = <<"images">>

\* C10 amended: script, speech and rendering are each called at most once per
\* run and never again after a failure; in the image stage one more call, the
\* single-image fallback, is issued after a call has raised: it is the next
\* call and the last, and when it raises too the stage fails.
C10_OnlyImageFallbackReissued ==
    \A r \in Runs :
        /\ \A s \in SingleCallStages :
              hist[r].after_fail[s] = 0 /\ hist[r].calls[s] <= 1
        /\ hist[r].after_fail["images"] <= 1
        /\ hist[r].failed["images"] <= 2
        /\ hist[r].after_fail["images"] = 1 => ImagesOver(r)
        /\ hist[r].failed["images"] = 2 =>
              outcome[r].raised = <<"images">> /\ hist[r].after_fail["images"] = 1
        /\ (hist[r].failed["images"] >= 1 /\ ~ImagesOver(r)) => pc[r] = "img_fallback"

\* A run whose image stage raised once and whose fallback call then returned
\* the single image.
C10_Witness ==
    \E r \in Runs :
        /\ hist[r].failed["images"] = 1
        /\ hist[r].after_fail["images"] = 1
        /\ "images" \in hist[r].done
        /\ Len(local[r].image_files) = 1

\* C11: when a run of generate_content is cancelled while suspended in a
\* collaborator call, the cleanup has been called by the time the caller
\* observes the cancellation.
C11_CleanupBeforeCancellation ==
    \A r \in Runs : pc[r] = "cancelled" => hist[r].cleanups = 1

\* C12: when the script collaborator returns empty text the run ends in
\* error there: the speech collaborator is not given the empty script and no
\* later stage is called.
C12_EmptyScriptErrors ==
    \A r \in Runs :
        ("script" \in hist[r].done /\ local[r].script = "") =>
            /\ hist[r].state = "Errored"
            /\ outcome[r].raised = <<"script">>
            /\ \A s \in Stages \ {"script"} : hist[r].calls[s] = 0

\* C13: a failure of the transcription never fails the run: whether the
\* transcription raises (exception, timeout, model unavailable) or returns an
\* empty transcript, the caption call does not raise, the caption stage
\* completes with the Strategy A timeline over the audio duration, and the run
\* goes on to render.
C13_TranscriptionFailureDegrades ==
    \A r \in Runs :
        /\ hist[r].failed["captions"] = 0
        /\ outcome[r].raised # <<"captions">>
        /\ local[r].transcript \in {"empty", "raises"} =>
              /\ "captions" \in hist[r].done
              /\ local[r].caption_data = [strategy |-> "A", duration |-> "audio"]
              /\ pc[r] = "write" \/ hist[r].calls["render"] = 1

\* A run whose transcription raised and whose video was rendered all the same.
C13_Witness ==
    \E r \in Runs :
        /\ local[r].transcript = "raises"
        /\ local[r].caption_data.strategy = "A"
        /\ "render" \in hist[r].done

\* C14 as stated: the caption stage yields the Strategy B timeline exactly
\* when the transcription returned a non-empty transcript, and the Strategy A
\* timeline otherwise.
C14_StrategyByTranscript ==
    \A r \in Runs :
        "captions" \in hist[r].done =>
            /\ local[r].caption_data.strategy = "B" <=> local[r].transcript = "words"
            /\ local[r].caption_data.strategy = "A" <=> local[r].transcript # "words"

\* C14 amended: the caption stage yields the Strategy B timeline exactly when
\* the transcription returned a non-empty transcript and the script has at
\* least one token; otherwise it yields the Strategy A timeline: over the end
\* of the last transcribed word when the transcript is non-empty (the script
\* has no token), over the audio duration when the transcript is empty or the
\* transcription raised.
C14_StrategyByTranscriptAndScript ==
    \A r \in Runs :
        "captions" \in hist[r].done =>
            LET c == local[r].caption_data
                words == local[r].transcript = "words"
                tokens == Tokens(local[r].script) # <<>> IN
            /\ c.strategy \in {"A", "B"}
            /\ c.strategy = "B" <=> (words /\ tokens)
            /\ (words /\ ~tokens) => c = [strategy |-> "A", duration |-> "transcript"]
            /\ ~words => c = [strategy |-> "A", duration |-> "audio"]

\* A non-empty transcript of the narration of a script without tokens, for
\* which the Strategy A timeline was produced.
C14_Witness ==
    \E r \in Runs :
        /\ "captions" \in hist[r].done
        /\ local[r].transcript = "words"
        /\ Tokens(local[r].script) = <<>>
        /\ local[r].caption_data.strategy = "A"

ImagesOnDisk(r) == { f \in venice_dir : f.owner = r /\ f.ext = "png" }

\* C16: when the image call fails on the 2nd of 3 requested images and the
\* image stage still returns, the images returned include every image that
\* was generated: no generated image is silently discarded.
C16_ImagesNeverDiscarded ==
    \A r \in Runs :
        (/\ pc[r] = "load"
         /\ local[r].image_count = 3
         /\ local[r].i = 1
         /\ hist[r].failed["images"] = 1)
            => ImagesOnDisk(r) \subseteq Range(local[r].image_files)

\* C17: the uploads are made in the order thumbnail, video, metadata; on the
\* success path all three are made, the thumbnail being the first image; and
\* the metadata document uploaded references the URIs the store returned for
\* the thumbnail and the video and carries the ticker and the description of
\* the request.
C17_MetadataReferencesUploads ==
    \A r \in Runs :
        LET st == hist[r].stored IN
        /\ IsPrefix([i \in 1..Len(st) |-> st[i].stage],
                    <<"thumbnail", "video", "metadata">>)
        /\ pc[r] = "returned" => Len(st) = 3
        /\ Len(st) >= 1 => st[1].uri = UploadedUri(local[r].image_files[1])
        /\ Len(st) >= 2 => st[2].uri = UploadedUri(local[r].video_file)
        /\ Len(st) = 3 =>
              LET m == st[3].uri.content IN
              /\ m.image = st[1].uri
              /\ m.animation_url = st[2].uri
              /\ m.content = [uri |-> st[2].uri, mime |-> "video/mp4"]
              /\ m.name = request[r].ticker
              /\ m.symbol = request[r].ticker
              /\ m.description = request[r].description

\* A run that returned after uploading the metadata of a request with a ticker.
C17_Witness ==
    \E r \in Runs :
        /\ pc[r] = "returned"
        /\ request[r].ticker = "BRT"
        /\ Len(hist[r].stored) = 3
        /\ hist[r].stored[3].uri.content.name = "BRT"

\* C18 as stated: a second cleanup call right after a first raises no error
\* and removes nothing.
C18_SecondCleanupRemovesNothing ==
    \A r \in Runs :
        hist[r].cleanups >= 2 =>
            /\ ~hist[r].cleanup.raised
            /\ hist[r].cleanup.removed = {}

\* C18 amended: a second cleanup call right after a first raises no error and
\* removes nothing but files whose removal failed in the first call: nothing
\* at all after a first call in which every removal succeeded.
C18_SecondCleanupRetriesFailed ==
    \A r \in Runs :
        hist[r].cleanups >= 2 =>
            /\ ~hist[r].cleanup.raised
            /\ ~hist[r].previous.raised
            /\ hist[r].cleanup.removed \subseteq hist[r].previous.failed
            /\ hist[r].previous.failed = {} =>
                  hist[r].cleanup.removed = {} /\ hist[r].cleanup.before = {}

\* A second cleanup call that removed nothing, after a first call that had
\* removed every file of the directory.
C18_Witness ==
    \E r \in Runs :
        /\ hist[r].cleanups = 2
        /\ hist[r].previous.removed # {}
        /\ hist[r].previous.failed = {}
        /\ hist[r].cleanup.removed = {}
        /\ ~hist[r].cleanup.raised

\* What the cleanup calls of the services of r did last.
CleanupLogs(r) == {hist[r].cleanup, hist[r].video_cleanup}

\* C19: a cleanup call tries to remove every file of its directory and never
\* raises: the files whose removal failed are logged and stay, every other
\* file is removed.
C19_CleanupLogsAndGoesOn ==
    \A r \in Runs :
        /\ outcome[r].raised = <<>>
        /\ \A c \in CleanupLogs(r) :
              /\ ~c.raised
              /\ c.failed \subseteq c.before
              /\ c.removed = c.before \ c.failed
        /\ hist[r].cleanup.removed \cap venice_dir = {}
        /\ hist[r].video_cleanup.removed \cap video_dir = {}

\* A cleanup call in which one removal failed and the other files were removed.
C19_Witness ==
    \E r \in Runs :
        /\ Cardinality(hist[r].cleanup.failed) = 1
        /\ Cardinality(hist[r].cleanup.removed) >= 2
        /\ hist[r].cleanup.failed \subseteq venice_dir

\* C20: a request with a target duration that is not greater than 0 is
\* rejected before any collaborator is called.
C20_InvalidRequestRejected ==
    \A r \in Runs :
        request[r].duration <= 0 =>
            /\ \A s \in Stages : hist[r].calls[s] = 0
            /\ hist[r].state \in {"Init", "Errored"}

(***************************************************************************)
(* Caption timing (SpecCaptions)                                           *)
(***************************************************************************)

\* The caption call of run r has returned, with Strategy A's estimate.
StrategyA(r) == pc[r] = "timed" /\ local[r].caption_data.strategy = "A"

\* The caption call of run r has returned, with Strategy B's alignment.
StrategyB(r) == pc[r] = "timed" /\ local[r].caption_data.strategy = "B"

\* The events of the caption data of run r, in emission order.
Events(r) ==
    LET caption_data == local[r].align.caption_data IN
    IF caption_data = <<>> THEN <<>> ELSE caption_data[1].words

\* The duration Strategy A was given: of the audio, or the end of the last
\* transcribed word.
EstimateDuration(r) ==
    LET a == local[r].align IN
    IF local[r].caption_data.duration = "audio" THEN a.audio_duration
    ELSE a.whisper_words[Len(a.whisper_words)].end

\* C21: for a script with at least one token and an audio duration > 0, the
\* events of Strategy A start where the previous one ends, the first at 0, and
\* each event has start < end; so the starts are non-decreasing.
C21_EstimateContiguous ==
    \A r \in Alone :
        StrategyA(r) /\ EstimateDuration(r) > 0 =>
            LET e == Events(r) IN
            \A i \in 1..Len(e) :
                /\ e[i].start < e[i].end
                /\ e[i].start = (IF i = 1 THEN 0 ELSE e[i - 1].end)
                /\ i > 1 => e[i - 1].start <= e[i].start

\* An estimate of at least three events.
C21_Witness ==
    \E r \in Alone : StrategyA(r) /\ EstimateDuration(r) > 0 /\ Len(Events(r)) >= 3

\* The script has word characters and spaces only, and at least one word.
WordsOnly(script) ==
    /\ \A i \in 1..Len(script) : script[i] \in WordOrApostrophe \cup Whitespace
    /\ CaptionWords(script) # <<>>

\* The end of the last event of a non-empty estimate is the duration given:
\* times are over the denominator den.
EndsAtDuration(r) ==
    LET e == Events(r) IN
    e[Len(e)].end = EstimateDuration(r) * local[r].align.caption_data[1].den

\* C22: for a script made only of word tokens and an audio duration D > 0,
\* the events of Strategy A span D: the first starts at 0 and the last ends
\* at D.
C22_WordsSpanDuration ==
    \A r \in Alone :
        StrategyA(r) /\ EstimateDuration(r) > 0 /\ WordsOnly(local[r].align.script) =>
            /\ Events(r) # <<>>
            /\ Events(r)[1].start = 0
            /\ EndsAtDuration(r)

\* An estimate for a script of two words of different lengths.
C22_Witness ==
    \E r \in Alone :
        /\ StrategyA(r)
        /\ WordsOnly(local[r].align.script)
        /\ Len(Events(r)) = 2
        /\ Len(Events(r)[1].word) # Len(Events(r)[2].word)

\* C23: for every script, with punctuation tokens too, and every audio
\* duration D > 0, Strategy A gives each token weight * D / sum(weights), the
\* weight of the token being the one used in the sum, and the last event ends
\* at D.
C23_EstimateEndsAtDuration ==
    \A r \in Alone :
        StrategyA(r) /\ EstimateDuration(r) > 0 /\ Events(r) # <<>> =>
            LET e == Events(r) IN
            /\ \A i \in 1..Len(e) :
                  e[i].end - e[i].start = TotalWeight(e[i].word) * EstimateDuration(r)
            /\ EndsAtDuration(r)

IsWord(text) ==
    text # <<>> /\ \A i \in 1..Len(text) : text[i] \in WordOrApostrophe

\* The characters of the tokens, in order.
RECURSIVE Flatten(_)
Flatten(words) == IF words = <<>> THEN <<>> ELSE words[1] \o Flatten(Tail(words))

\* C25 as stated: every token of Strategy A is one word or one punctuation
\* mark, a word and the mark next to it are never one token; and the script
\* "Hello world." with 2.0 s gives the three events Hello, world and ".".
C25_WordOrMarkTokens ==
    \A r \in Alone :
        StrategyA(r) =>
            LET e == Events(r) IN
            /\ \A i \in 1..Len(e) :
                  \/ IsWord(e[i].word)
                  \/ Len(e[i].word) = 1
                        /\ e[i].word[1] \notin WordOrApostrophe \cup Whitespace
            /\ local[r].align.script
                   = <<"H", "e", "l", "l", "o", " ", "w", "o", "r", "l", "d", ".">>
               => Len(e) = 3

\* C25 as the code does it: a token of Strategy A is a word, a word followed
\* by marks when that is a whole whitespace-separated group of the script, or
\* one character that is neither a word character nor whitespace; the tokens
\* are the script without its whitespace, so a contraction is one token.  The
\* script "Hello world." with 2.0 s gives two events, Hello from 0 to 2.0 *
\* 1.0 / 2.1 and "world." from there to 2.0, only Hello highlighted.
C25_WordWithMarksTokens ==
    \A r \in Alone :
        StrategyA(r) =>
            LET e == Events(r)
                script == local[r].align.script
                hello == <<"H", "e", "l", "l", "o">>
                world == <<"w", "o", "r", "l", "d", ".">> IN
            /\ \A i \in 1..Len(e) :
                  \/ IsWord(e[i].word)
                  \/ IsWordWithMarks(e[i].word)
                        /\ \E k \in 1..Len(Split(script)) : Split(script)[k] = e[i].word
                  \/ Len(e[i].word) = 1
                        /\ e[i].word[1] \notin WordOrApostrophe \cup Whitespace
            /\ Flatten([i \in 1..Len(e) |-> e[i].word])
                   = SelectSeq(script, LAMBDA c : c \notin Whitespace)
            /\ script = hello \o <<" ">> \o world /\ EstimateDuration(r) = 20
               => /\ local[r].align.caption_data[1].den = 21
                  /\ e = <<[word |-> hello, start |-> 0, end |-> 200,
                            highlighted |-> TRUE],
                           [word |-> world, start |-> 200, end |-> 420,
                            highlighted |-> FALSE]>>

\* The estimate for "Hello world." over 2.0 s.
C25_Witness ==
    \E r \in Alone :
        /\ StrategyA(r)
        /\ EstimateDuration(r) = 20
        /\ local[r].align.script
               = <<"H", "e", "l", "l", "o", " ", "w", "o", "r", "l", "d", ".">>
        /\ Len(Events(r)) = 2

\* C26: for an audio duration > 0 the caption call, with either strategy,
\* returns an empty timeline only if the script has no token: a script with a
\* token (a character that is not whitespace) yields at least one event.
C26_EmptyOnlyWithoutToken ==
    \A r \in Alone :
        pc[r] = "timed" =>
            LET script == local[r].align.script IN
            /\ Events(r) = <<>> => CaptionWords(script) = <<>> /\ ScriptWords(script) = <<>>
            /\ (\E i \in 1..Len(script) : script[i] \notin Whitespace)
               => Events(r) # <<>>

\* A transcript aligned with a script of one symbol: no word is aligned and
\* the estimate has the one event.
C26_Witness ==
    \E r \in Alone :
        /\ StrategyA(r)
        /\ local[r].caption_data.duration = "transcript"
        /\ local[r].align.script = <<"(">>
        /\ Len(Events(r)) = 1

\* Run r makes one iteration of the alignment loop in this step.
Iteration(r) ==
    /\ pc[r] = "align"
    /\ local'[r].align.script_idx = local[r].align.script_idx + 1

\* The transcribed word the iteration of this step matched, -1 for none.
MatchOf(r) == local'[r].align.matched[Len(local'[r].align.matched)]

\* The entry the iteration of this step appended.
EntryOf(r) == local'[r].align.aligned_words[Len(local'[r].align.aligned_words)]

\* The similarity of the script word under the cursor and transcribed word j
\* (from 0).
SimilarityAt(a, j) ==
    WordSimilarity(a.script_words[a.script_idx + 1], Lower(a.whisper_words[j + 1].word))

\* The positions of the forward window at the transcript cursor.
Window(a) ==
    { j \in 0..(Len(a.whisper_words) - 1) :
        a.trans_idx <= j /\ j < a.trans_idx + LookAhead }

\* C27: in Strategy B the candidates for a script token are the transcribed
\* words in a forward window of at most 10 words from the transcript cursor,
\* within the transcript; the one of highest similarity is selected, the
\* earliest on ties, and accepted only if its similarity is greater than 0.6.
C27_BestInWindowAboveThreshold ==
    [][\A r \in Alone :
          Iteration(r) =>
              LET a == local[r].align
                  m == MatchOf(r) IN
              IF \E j \in Window(a) : Greater(SimilarityAt(a, j), Threshold)
              THEN /\ m \in Window(a)
                   /\ \A j \in Window(a) :
                         /\ ~Greater(SimilarityAt(a, j), SimilarityAt(a, m))
                         /\ ~Greater(SimilarityAt(a, m), SimilarityAt(a, j)) => m <= j
              ELSE m = -1]_vars

\* The first script word was matched to the last word of a full window.
C27_Witness ==
    \E r \in Alone :
        /\ pc[r] = "align"
        /\ local[r].align.matched # <<>>
        /\ local[r].align.matched[1] = LookAhead - 1

\* C28: in Strategy B an accepted match at transcript position m gives the
\* script token the start and end of transcribed word m, advances the script
\* cursor by 1 and sets the transcript cursor to m + 1; the transcript cursor
\* never decreases and the matched positions are strictly increasing in script
\* order.
C28_MatchAdvancesBothCursors ==
    /\ [][\A r \in Alone :
             Iteration(r) =>
                 LET a == local[r].align
                     m == MatchOf(r) IN
                 /\ local'[r].align.trans_idx >= a.trans_idx
                 /\ m # -1 =>
                       /\ EntryOf(r).word = a.script_words[a.script_idx + 1]
                       /\ EntryOf(r).start = a.whisper_words[m + 1].start
                       /\ EntryOf(r).end = a.whisper_words[m + 1].end
                       /\ local'[r].align.script_idx = a.script_idx + 1
                       /\ local'[r].align.trans_idx = m + 1]_vars
    /\ [](\A r \in Alone :
             LET matched == local[r].align.matched IN
             \A i, j \in 1..Len(matched) :
                 i < j /\ matched[i] # -1 /\ matched[j] # -1 => matched[i] < matched[j])

\* Two script words matched to two transcribed words.
C28_Witness ==
    \E r \in Alone :
        LET matched == local[r].align.matched IN
        /\ StrategyB(r)
        /\ Len(matched) >= 2
        /\ matched[1] # -1 /\ matched[2] # -1

\* C29: in Strategy B, when no candidate of the window is acceptable, the
\* script token gets an event that starts at the start of the transcribed word
\* under the transcript cursor and lasts 0.2 s; the script cursor advances by 1
\* and the transcript cursor stays.
C29_NoMatchKeepsTranscriptCursor ==
    [][\A r \in Alone :
          Iteration(r) /\ MatchOf(r) = -1 =>
              LET a == local[r].align IN
              /\ EntryOf(r).word = a.script_words[a.script_idx + 1]
              /\ EntryOf(r).start = a.whisper_words[a.trans_idx + 1].start
              /\ EntryOf(r).end = EntryOf(r).start + UnmatchedDuration
              /\ local'[r].align.script_idx = a.script_idx + 1
              /\ local'[r].align.trans_idx = a.trans_idx]_vars

\* A script word without a match after a matched one: the entry starts at the
\* transcribed word after the match.
C29_Witness ==
    \E r \in Alone :
        LET a == local[r].align IN
        /\ Len(a.matched) >= 2
        /\ a.matched[1] # -1 /\ a.matched[2] = -1
        /\ a.trans_idx = a.matched[1] + 1
        /\ a.aligned_words[2].start = a.whisper_words[a.trans_idx + 1].start

\* C30: the alignment of Strategy B stops as soon as a cursor is exhausted,
\* with one event for each script token processed: as many events as script
\* tokens unless the transcript cursor reaches the end of the transcript
\* first, and then no event for the script tokens that remain.
C30_OneEventPerProcessedToken ==
    \A r \in Alone :
        LET a == local[r].align IN
        /\ pc[r] = "align" =>
              /\ Len(a.aligned_words) = a.script_idx
              /\ a.script_idx <= Len(a.script_words)
              /\ a.trans_idx <= Len(a.whisper_words)
        /\ StrategyB(r) =>
              /\ Len(Events(r)) = a.script_idx
              /\ a.script_idx = Len(a.script_words) \/ a.trans_idx = Len(a.whisper_words)
              /\ a.trans_idx < Len(a.whisper_words) => Len(Events(r)) = Len(a.script_words)
              /\ \A i \in 1..Len(a.script_words) :
                    (\E k \in 1..Len(Events(r)) : Events(r)[k].word = a.script_words[i])
                    \/ i > a.script_idx

\* The transcript is exhausted with script tokens left: fewer events than
\* script tokens.
C30_Witness ==
    \E r \in Alone :
        LET a == local[r].align IN
        /\ StrategyB(r)
        /\ a.trans_idx = Len(a.whisper_words)
        /\ 0 < Len(Events(r)) /\ Len(Events(r)) < Len(a.script_words)

\* C38: the alignment loop of Strategy B terminates for every script and every
\* transcript: each iteration advances the script cursor by exactly 1 and the
\* cursor never passes the number of script tokens, so the loop makes at most
\* that many iterations and the alignment returns.
C38_AlignmentTerminates ==
    /\ \A r \in Alone : (pc[r] = "align") ~> (pc[r] = "timed")
    /\ [][\A r \in Alone :
             pc[r] = "align" /\ pc'[r] = "align" =>
                 local'[r].align.script_idx = local[r].align.script_idx + 1]_vars
    /\ [](\A r \in Alone :
             local[r].align.script_idx <= Len(local[r].align.script_words))

\* An alignment that returned after three iterations.
C38_Witness ==
    \E r \in Alone :
        /\ pc[r] = "timed"
        /\ local[r].align.whisper_words # <<>>
        /\ local[r].align.script_idx = 3

\* The transcribed words of run r have start < end.
PositiveTimings(r) ==
    \A k \in 1..Len(local[r].align.whisper_words) :
        local[r].align.whisper_words[k].start < local[r].align.whisper_words[k].end

\* The transcribed words of run r have non-decreasing starts.
MonotoneTranscript(r) ==
    \A k \in 1..(Len(local[r].align.whisper_words) - 1) :
        local[r].align.whisper_words[k].start <= local[r].align.whisper_words[k + 1].start

\* events is entries put in the order of their starts, entries of equal start
\* in the order they have in entries.
IsStableOrderOf(events, entries) ==
    /\ Len(events) = Len(entries)
    /\ \E p \in Permutations(1..Len(entries)) :
          /\ \A k \in 1..Len(entries) : events[k] = entries[p[k]]
          /\ \A k, l \in 1..Len(entries) :
                k < l => \/ entries[p[k]].start < entries[p[l]].start
                         \/ /\ entries[p[k]].start = entries[p[l]].start
                            /\ p[k] < p[l]

\* C31: the events Strategy B returns are in the order of non-decreasing start,
\* events of equal start in their script order (the order the loop emitted
\* them in); and when every transcribed word has start < end, every returned
\* event has start < end.
C31_SortedByStartStable ==
    \A r \in Alone :
        StrategyB(r) =>
            /\ \A k \in 1..(Len(Events(r)) - 1) :
                  Events(r)[k].start <= Events(r)[k + 1].start
            /\ IsStableOrderOf(Events(r), local[r].align.aligned_words)
            /\ PositiveTimings(r) =>
                  \A k \in 1..Len(Events(r)) : Events(r)[k].start < Events(r)[k].end

\* The transcript went backwards in time and the sort put the later script
\* token first; every event has start < end.
C31_Witness ==
    \E r \in Alone :
        /\ StrategyB(r)
        /\ PositiveTimings(r)
        /\ Len(Events(r)) = 2
        /\ Events(r)[1] = local[r].align.aligned_words[2]
        /\ Events(r)[1].start < Events(r)[2].start
        /\ \A k \in 1..2 : Events(r)[k].start < Events(r)[k].end

\* C36: when the transcribed words have non-decreasing starts, the events the
\* loop of Strategy B emits are in non-decreasing start order already, the
\* sort leaves them as they are, and the returned events are the processed
\* script tokens in script order.
C36_MonotoneTranscriptNoReorder ==
    \A r \in Alone :
        LET a == local[r].align IN
        StrategyB(r) /\ MonotoneTranscript(r) =>
            /\ \A k \in 1..(Len(a.aligned_words) - 1) :
                  a.aligned_words[k].start <= a.aligned_words[k + 1].start
            /\ Events(r) = a.aligned_words
            /\ Len(Events(r)) = a.script_idx
            /\ \A k \in 1..Len(Events(r)) : Events(r)[k].word = a.script_words[k]

\* A token without a match at the first transcribed word, then a token matched
\* to the second: two events in script order with increasing starts.
C36_Witness ==
    \E r \in Alone :
        LET a == local[r].align IN
        /\ StrategyB(r) /\ MonotoneTranscript(r)
        /\ Len(a.matched) = 2
        /\ a.matched[1] = -1 /\ a.matched[2] = 1
        /\ Events(r)[1].start < Events(r)[2].start

\* C37: in Strategy B a script token that is a single punctuation mark is
\* matched only to a transcribed word that is the identical string; with no
\* such word in the window it is emitted as an unmatched event that starts at
\* the start of the transcribed word under the transcript cursor and lasts
\* 0.2 s, and the transcript cursor stays.
C37_MarkMatchesOnlyItself ==
    [][\A r \in Alone :
          Iteration(r) /\ IsMark(local[r].align.script_words[local[r].align.script_idx + 1]) =>
              LET a == local[r].align
                  mark == a.script_words[a.script_idx + 1]
                  m == MatchOf(r) IN
              /\ m # -1 => a.whisper_words[m + 1].word = mark
              /\ (\A j \in Window(a) : a.whisper_words[j + 1].word # mark) =>
                    /\ m = -1
                    /\ EntryOf(r).word = mark
                    /\ EntryOf(r).start = a.whisper_words[a.trans_idx + 1].start
                    /\ EntryOf(r).end = EntryOf(r).start + UnmatchedDuration
                    /\ local'[r].align.trans_idx = a.trans_idx]_vars

\* A full stop of the script met a comma of the transcript and was left
\* without a match, at the comma's start.
C37_Witness ==
    \E r \in Alone :
        LET a == local[r].align IN
        /\ a.matched # <<>> /\ a.matched[1] = -1
        /\ a.script_words[1] = <<".">>
        /\ a.whisper_words[1].word = <<",">>
        /\ a.trans_idx = 0
        /\ a.aligned_words[1].end = a.whisper_words[1].start + UnmatchedDuration

\* The transcript of run r is the script of run r: the script has no
\* punctuation, and the transcribed words are its tokens, in the same order.
IdenticalTranscript(r) ==
    LET a == local[r].align IN
    /\ \A i \in 1..Len(a.script_words) : ~IsMark(a.script_words[i])
    /\ Lower(Flatten(CaptionWords(a.script))) = Flatten(a.script_words)
    /\ Len(CaptionWords(a.script)) = Len(a.script_words)
    /\ TranscribedWordsOf(a.whisper_words) = a.script_words

\* The transcribed words of run r follow each other without a gap, each as
\* long as the others, the first at 0.
EvenlySpaced(r) ==
    LET whisper_words == local[r].align.whisper_words IN
    /\ whisper_words[1].start = 0
    /\ \A k \in 1..Len(whisper_words) :
          whisper_words[k].end - whisper_words[k].start = whisper_words[1].end
    /\ \A k \in 1..(Len(whisper_words) - 1) :
          whisper_words[k + 1].start = whisper_words[k].end

\* The timeline Strategy A produces for the script of run r over the time the
\* transcript of run r takes.
EstimateOf(r) ==
    LET a == local[r].align IN
    GenerateCaptionTimings(a.script, a.whisper_words[Len(a.whisper_words)].end)[1]

\* Token i of run r is matched to transcribed word i, and the event of token
\* i has the timing of transcribed word i.
MatchedInPlace(r) ==
    LET a == local[r].align IN
    /\ Len(Events(r)) = Len(a.script_words)
    /\ Len(a.aligned_words) = Len(a.script_words)
    /\ \A i \in 1..Len(a.script_words) :
          /\ a.matched[i] = i - 1
          /\ a.aligned_words[i].word = a.script_words[i]
          /\ a.aligned_words[i].start = a.whisper_words[i].start
          /\ a.aligned_words[i].end = a.whisper_words[i].end

\* Event i of run r has the start and the end of event i of Strategy A, for
\* every i.
SameTimingAsEstimate(r) ==
    /\ Len(Events(r)) = Len(EstimateOf(r).words)
    /\ \A i \in 1..Len(Events(r)) :
          /\ Events(r)[i].start * EstimateOf(r).den = EstimateOf(r).words[i].start
          /\ Events(r)[i].end * EstimateOf(r).den = EstimateOf(r).words[i].end

\* Event i of run r has the token of event i of Strategy A, in lower case, and
\* its highlighting, for every i.
SameTokensAsEstimate(r) ==
    /\ Len(Events(r)) = Len(EstimateOf(r).words)
    /\ \A i \in 1..Len(Events(r)) :
          /\ Events(r)[i].word = Lower(EstimateOf(r).words[i].word)
          /\ Events(r)[i].highlighted = EstimateOf(r).words[i].highlighted

\* C32 as stated: with a transcript that is the script, Strategy B matches
\* token i to transcribed word i and gives its event that timing; and with evenly
\* spaced transcribed words the events have the timing of Strategy A's.
C32_IdenticalTranscriptAgreesWithEstimate ==
    \A r \in Alone :
        StrategyB(r) /\ IdenticalTranscript(r) =>
            /\ MatchedInPlace(r)
            /\ EvenlySpaced(r) => SameTimingAsEstimate(r)

\* C32, amended: with a transcript that is the script, Strategy B matches
\* token i to transcribed word i and gives the event of token i its timing;
\* when the transcribed words have non-decreasing starts, the returned events
\* are the tokens of Strategy A's events in lower case, in the same order and
\* with the same highlighting; with evenly spaced transcribed words they have
\* the timing of Strategy A's events exactly when all tokens have the same
\* weight.
C32_IdenticalTranscriptSameTokens ==
    \A r \in Alone :
        StrategyB(r) /\ IdenticalTranscript(r) =>
            /\ MatchedInPlace(r)
            /\ MonotoneTranscript(r) => SameTokensAsEstimate(r)
            /\ EvenlySpaced(r) =>
                  (SameTimingAsEstimate(r)
                     <=> \A i \in 1..Len(local[r].align.script_words) :
                            WordWeight(local[r].align.script_words[i])
                              = WordWeight(local[r].align.script_words[1]))

\* Two tokens of different length heard one after the other for the same
\* time: the events are matched in place and differ in time from Strategy A's.
C32_Witness ==
    \E r \in Alone :
        /\ StrategyB(r) /\ IdenticalTranscript(r) /\ EvenlySpaced(r)
        /\ Len(Events(r)) = 2
        /\ MatchedInPlace(r)
        /\ WordWeight(local[r].align.script_words[1])
             # WordWeight(local[r].align.script_words[2])
        /\ ~SameTimingAsEstimate(r)

\* The call of _word_similarity of run r has returned.
Compared(r) == pc[r] = "compared"

\* The similarity is the number x.
SimilarityIs(similarity, x) == similarity.n = x * similarity.d

\* C33 as stated: the similarity is 1.0 whenever the words are equal after
\* lower-casing and stripping punctuation; with a word of length <= 2 after
\* stripping it is 1.0 if they are equal and 0.0 if not; it lies in [0, 1]; and
\* it is 0 when either word is empty after stripping.
C33_SimilarityOfStrippedWords ==
    \A r \in Alone :
        LET a == local[r].align
            w1 == CleanWord(a.word1)
            w2 == CleanWord(a.word2) IN
        Compared(r) =>
            /\ w1 = w2 => SimilarityIs(a.similarity, 1)
            /\ Len(w1) <= 2 \/ Len(w2) <= 2 =>
                  SimilarityIs(a.similarity, IF w1 = w2 THEN 1 ELSE 0)
            /\ a.similarity.d > 0
            /\ 0 <= a.similarity.n /\ a.similarity.n <= a.similarity.d
            /\ w1 = <<>> \/ w2 = <<>> => SimilarityIs(a.similarity, 0)

\* C33, amended: the similarity lies in [0, 1]; it is 0 when either word is
\* empty as given; 1.0 when the words are the same string; else 0 when either
\* word is empty after lower-casing and stripping punctuation; else 1.0 when
\* the stripped words are equal, and 0 when they differ and one of them has
\* length <= 2.
C33_SimilarityOfWords ==
    \A r \in Alone :
        LET a == local[r].align
            w1 == CleanWord(a.word1)
            w2 == CleanWord(a.word2) IN
        Compared(r) =>
            /\ a.similarity.d > 0
            /\ 0 <= a.similarity.n /\ a.similarity.n <= a.similarity.d
            /\ IF a.word1 = <<>> \/ a.word2 = <<>> THEN SimilarityIs(a.similarity, 0)
               ELSE IF a.word1 = a.word2 THEN SimilarityIs(a.similarity, 1)
               ELSE IF w1 = <<>> \/ w2 = <<>> THEN SimilarityIs(a.similarity, 0)
               ELSE IF w1 = w2 THEN SimilarityIs(a.similarity, 1)
               ELSE Len(w1) <= 2 \/ Len(w2) <= 2 => SimilarityIs(a.similarity, 0)

\* A full stop compared with a full stop: empty after stripping, similarity 1.
C33_Witness ==
    \E r \in Alone :
        /\ Compared(r)
        /\ local[r].align.word1 = <<".">> /\ local[r].align.word2 = <<".">>
        /\ SimilarityIs(local[r].align.similarity, 1)

\* Run r is inside generate_multiple_images.
InImages(r) == pc[r] \in {"img_prompts", "img_batch", "img_remaining", "img_fallback"}

\* C34: a call of generate_multiple_images with count >= 1 that returns,
\* returns exactly count images when no error occurred (the images the batch
\* did not yield made one by one), and exactly one image, that of the
\* single-image fallback, after an error; the list is never empty; and the
\* call raises only when the single-image fallback call raised.
C34_CountImagesOrOne ==
    [][\A r \in Runs :
          InImages(r) /\ local[r].image_count >= 1 =>
              /\ pc'[r] = "load" =>
                    /\ local'[r].image_files # <<>>
                    /\ Len(local'[r].image_files) =
                           IF pc[r] = "img_fallback" THEN 1 ELSE local[r].image_count
                    /\ pc[r] # "img_fallback" => hist'[r].failed["images"] = 0
              /\ pc'[r] = "raised" =>
                    /\ pc[r] = "img_fallback"
                    /\ hist'[r].failed["images"] = hist[r].failed["images"] + 1]_vars

\* Three images were asked for, the batch made one and then failed: the
\* fallback image is returned alone.
C34_Witness ==
    \E r \in Runs :
        /\ pc[r] = "load"
        /\ local[r].image_count = 3
        /\ hist[r].calls["images"] = 4
        /\ hist[r].failed["images"] = 1
        /\ Len(local[r].image_files) = 1

\* C35: an empty image list handed to the renderer makes rendering fail, and
\* no upload is made; every result generate_content returns has a thumbnail
\* URI.
C35_EmptyImagesNeverPublished ==
    /\ [][\A r \in Runs :
             pc[r] = "load" /\ local[r].image_files = <<>> /\ pc'[r] # "load" =>
                 /\ pc'[r] = "raised"
                 /\ outcome'[r].raised \in {<<"render">>, <<"cleanup">>}]_vars
    /\ [](\A r \in Runs :
             "images" \in hist[r].done /\ local[r].image_files = <<>> =>
                 /\ \A s \in UploadStages : hist[r].calls[s] = 0
                 /\ hist[r].stored = <<>>
                 /\ outcome[r].returned = <<>>)
    /\ [](\A r \in Runs :
             \A i \in 1..Len(outcome[r].returned) :
                 /\ outcome[r].returned[i].thumbnail_uri # NoUri
                 /\ outcome[r].returned[i].thumbnail_uri = StoredUri(r, "thumbnail"))

\* The image stage returned no image for a count of 0 and the renderer raised.
C35_Witness ==
    \E r \in Runs :
        /\ "images" \in hist[r].done
        /\ local[r].image_files = <<>>
        /\ outcome[r].raised = <<"render">>
        /\ hist[r].calls["thumbnail"] = 0

====
